---- MODULE Spec2Model ----
(***************************************************************************)
(* Structural-integrity and chunked free-fall simulation of                *)
(* excavation-site-alpha: ModePlaying::update and ModePlaying::handle_input*)
(* (src/src/modes/playing/mod.rs) over the blocks and connectors of        *)
(* src/src/modes/playing/blocks.rs.                                        *)
(*                                                                         *)
(* One step of the model is one call of update(): handle_input, the        *)
(* statistics and damage pass, the stability flood fill, the extraction of *)
(* the unsupported blocks into a new chunk, and the falling-chunk loop.    *)
(*                                                                         *)
(* Conventions.  Option<T> is a sequence: <<>> is None, <<v>> is Some(v).  *)
(* A coordinate is <<x, y>>, y grows downwards.  Direction4 is its index   *)
(* 0..3 (North, East, South, West), as in `dir as usize`.  The f32 fall    *)
(* progress dy is kept exactly, in sixtieths of a cell (FALL_ACCELLERATION *)
(* is 1/60 and FALL_TERMINAL is 30/60); the f32 value and the exact value  *)
(* have the same integer part on every tick the model can reach.           *)
(* Probabilities are numerators over ChanceDen.                            *)
(***************************************************************************)
EXTENDS Integers, Sequences, FiniteSets, TLC

VARIABLES
    stable_blocks,    \* HashMap<ICoord, Block>: function from coordinates to blocks
    falling_blocks,   \* Vec<FallingBlockChunk>
    conveyor_blocks,  \* Vec<Block>
    held,             \* Option<HoldInfo>: <<>> or <<idx>> (0-based index)
    blocks_left,      \* usize
    max_depth,        \* cached maximum depth
    center_of_mass,   \* cached center of mass, <<superposes, masses>> or <<0, 1>>
    frames_elapsed,   \* u64
    tick,             \* history of the last update() call (not program state)
    player            \* acts: the pickups, clicks and wheel turns the player has made;
                      \* since: the frame the player began at

vars == <<stable_blocks, falling_blocks, conveyor_blocks, held, blocks_left,
          max_depth, center_of_mass, frames_elapsed, tick, player>>

----------------------------------------------------------------------------
(* Program constants *)

CHASM_WIDTH == 9
SCREEN_HEIGHT == 15
BOTTOM_VIEW_SIZE == SCREEN_HEIGHT \div 2
FALL_TERMINAL60 == 30
BREAK_TIMER == 60
BLOCK_ALLOWANCE == 100
CONVEYOR_MAX_SIZE == 7
ChanceDen == 12000

(* Bounds of the model *)

MaxFrames == 61        \* at rest, update() is called while frames_elapsed < MaxFrames
MaxFallFrames == 140   \* with a chunk falling, while frames_elapsed < MaxFallFrames
EarlyFrames == 3       \* the player acts in its first EarlyFrames frames, and at LateFrames
MaxActs == 2           \* pickups, clicks and wheel turns the player makes
MaxHits == 1           \* blocks the Bernoulli trials of one cadence tick damage

----------------------------------------------------------------------------
(* Directions, coordinates, connectors *)

North == 0
East == 1
South == 2
West == 3
DIRECTIONS == <<North, East, South, West>>

deltas(dir) ==
    CASE dir = North -> <<0, -1>>
      [] dir = East  -> <<1, 0>>
      [] dir = South -> <<0, 1>>
      [] dir = West  -> <<-1, 0>>

flip(dir) == (dir + 2) % 4

Add(p, q) == <<p[1] + q[1], p[2] + q[2]>>

Abs(n) == IF n < 0 THEN -n ELSE n

Max(a, b) == IF a > b THEN a ELSE b

Min(a, b) == IF a < b THEN a ELSE b

ConnectorShape == {"Square", "Round", "Pointy"}

Connector == [shape : ConnectorShape, sticks_out : BOOLEAN]

BlockKind == {"Scaffold", "Solid", "Anchor"}

None == <<>>

Some(v) == <<v>>

(* links_with that wants self to be the connector that sticks out *)
links_with_outward(self, other) ==
    self.shape = other.shape /\ self.sticks_out /\ ~other.sticks_out

links_with(self, other) ==
    self.shape = other.shape /\ self.sticks_out # other.sticks_out

(* Block: connectors is a function 0..3 -> Option<Connector>.  The field id
   is a history field: it names the block so that its whereabouts can be
   followed; no operation reads it. *)

mass(block) ==
    CASE block.kind = "Scaffold" -> 1
      [] block.kind = "Solid"    -> 5
      [] block.kind = "Anchor"   -> 0

(* is_removable that holds of every kind *)
is_removable_any(block) == TRUE

is_removable(block) == block.kind = "Scaffold"

resilience(block) ==
    CASE block.kind = "Scaffold" -> 8
      [] block.kind = "Solid"    -> 16
      [] block.kind = "Anchor"   -> 64

(* is_valid_pos that looks at the row only *)
is_valid_pos_any_column(block, pos) == pos[2] >= 0

is_valid_pos(block, pos) ==
    LET valid_x == IF block.kind = "Anchor"
                   THEN Abs(pos[1]) = CHASM_WIDTH \div 2 + 1
                   ELSE Abs(pos[1]) < CHASM_WIDTH \div 2 + 1
        valid_y == pos[2] >= 0
    IN valid_x /\ valid_y

(* would_link that takes any connector on the facing side for a match *)
would_link_any_connector(grid, position, connector, facing) ==
    LET target == Add(position, deltas(facing)) IN
    IF target \in DOMAIN grid
    THEN grid[target].connectors[flip(facing)] # None
    ELSE FALSE

would_link(grid, position, connector, facing) ==
    LET target == Add(position, deltas(facing)) IN
    IF target \in DOMAIN grid
    THEN LET c == grid[target].connectors[flip(facing)] IN
         IF c # None THEN links_with(c[1], connector) ELSE FALSE
    ELSE FALSE

is_stable_anchorless(grid, pos, block) ==
    \/ Add(pos, <<0, 1>>) \in DOMAIN grid
    \/ \E i \in 1..4 :
         LET dir == DIRECTIONS[i] IN
         /\ block.connectors[dir] # None
         /\ would_link(grid, pos, block.connectors[dir][1], dir)

is_stable(grid, pos, block) ==
    block.kind = "Anchor" \/ is_stable_anchorless(grid, pos, block)

(* can_anchor_be_placed without the look at the cell above *)
can_anchor_be_placed_no_above(grid, pos, block) == is_stable_anchorless(grid, pos, block)

can_anchor_be_placed(grid, pos, block) ==
    \/ Add(pos, <<0, -1>>) \in DOMAIN grid
    \/ is_stable_anchorless(grid, pos, block)

(* HashMap operations *)

EmptyMap == [p \in {} |-> 0]

Insert(grid, pos, block) == (pos :> block) @@ grid

(* a removal that removes nothing *)
Remove_nothing(grid, poses) == grid

Remove(grid, poses) == [p \in DOMAIN grid \ poses |-> grid[p]] @@ EmptyMap

----------------------------------------------------------------------------
(* Statistics and damage pass (update(), first half) *)

(* a count of the connectors the block has, linked or not *)
link_count_connectors(grid, pos) ==
    Cardinality({i \in 1..4 : grid[pos].connectors[DIRECTIONS[i]] # None})

link_count(grid, pos) ==
    Cardinality({i \in 1..4 :
        LET dir == DIRECTIONS[i] IN
        /\ grid[pos].connectors[dir] # None
        /\ would_link(grid, pos, grid[pos].connectors[dir][1], dir)})

(* BREAK_CHANCES, as numerators over ChanceDen: 0, 0.3/60, 1/60, 1.5/60, 3/60 *)
BREAK_CHANCES == <<0, 60, 200, 300, 600>>

(* the rows whose columns short of the last are all occupied *)
depths_with_rows_short(grid) ==
    {depth \in {p[2] : p \in DOMAIN grid} :
        \A idx \in 0..(CHASM_WIDTH - 2) :
            <<idx - CHASM_WIDTH \div 2, depth>> \in DOMAIN grid}

depths_with_rows(grid) ==
    {depth \in {p[2] : p \in DOMAIN grid} :
        \A idx \in 0..(CHASM_WIDTH - 1) :
            <<idx - CHASM_WIDTH \div 2, depth>> \in DOMAIN grid}

(* The chance of the Bernoulli trial of the block at pos: the table entry,
   halved in the wall columns, times 0.1 in a complete row. *)
break_chance(grid, pos) ==
    LET base == BREAK_CHANCES[link_count(grid, pos) + 1]
        walled == IF Abs(pos[1]) > CHASM_WIDTH \div 2 THEN base \div 2 ELSE base
    IN IF pos[2] \in depths_with_rows(grid) THEN walled \div 10 ELSE walled

RECURSIVE SumOver(_, _, _)
SumOver(grid, poses, weighs_depth) ==
    IF poses = {} THEN 0
    ELSE LET p == CHOOSE q \in poses : TRUE IN
         (IF weighs_depth THEN p[2] * mass(grid[p]) ELSE mass(grid[p]))
           + SumOver(grid, poses \ {p}, weighs_depth)

RECURSIVE MaxDepthOver(_, _)
MaxDepthOver(poses, acc) ==
    IF poses = {} THEN acc
    ELSE LET p == CHOOSE q \in poses : TRUE IN
         MaxDepthOver(poses \ {p}, Max(acc, p[2]))

compute_max_depth(grid) == MaxDepthOver(DOMAIN grid, 0)

(* the quotient taken without the test for masses = 0 *)
compute_center_of_mass_unguarded(grid) ==
    <<SumOver(grid, DOMAIN grid, TRUE), SumOver(grid, DOMAIN grid, FALSE)>>

compute_center_of_mass(grid) ==
    LET superposes == SumOver(grid, DOMAIN grid, TRUE)
        masses == SumOver(grid, DOMAIN grid, FALSE)
    IN IF masses = 0 THEN <<0, 1>> ELSE <<superposes, masses>>

(* gen_bool(chance) can only succeed where chance > 0 *)
CanBeHit(grid, pos) == break_chance(grid, pos) > 0

(* the loop removing a block as soon as its damage reaches its resilience *)
damage_pass_at_resilience(grid, hits) ==
    LET damaged == [p \in DOMAIN grid |->
                      IF p \in hits
                      THEN [grid[p] EXCEPT !.damage = @ + 1]
                      ELSE grid[p]]
        dead == {p \in DOMAIN grid : damaged[p].damage >= resilience(damaged[p])}
    IN Remove(damaged @@ EmptyMap, dead)

(* the loop without the removal *)
damage_pass_keeping(grid, hits) ==
    [p \in DOMAIN grid |->
       IF p \in hits THEN [grid[p] EXCEPT !.damage = @ + 1] ELSE grid[p]] @@ EmptyMap

(* The loop over poses_to_break_chance: hits is the set of coordinates whose
   trial succeeds on this tick (empty off the cadence). *)
damage_pass(grid, hits) ==
    LET damaged == [p \in DOMAIN grid |->
                      IF p \in hits
                      THEN [grid[p] EXCEPT !.damage = @ + 1]
                      ELSE grid[p]]
        dead == {p \in DOMAIN grid : damaged[p].damage > resilience(damaged[p])}
    IN Remove(damaged @@ EmptyMap, dead)

----------------------------------------------------------------------------
(* Stability flood fill (update(), "Check for blocks that should fall") *)

RECURSIVE SetToSeq(_)
SetToSeq(S) ==
    IF S = {} THEN <<>>
    ELSE LET x == CHOOSE y \in S : TRUE IN <<x>> \o SetToSeq(S \ {x})

(* anchor_seeds that takes the anchors of the top row only *)
anchor_seeds_top_row(grid) ==
    SetToSeq({p \in DOMAIN grid : grid[p].kind = "Anchor" /\ p[2] = 0})

anchor_seeds(grid) ==
    SetToSeq({p \in DOMAIN grid : grid[p].kind = "Anchor"})

connects(grid, pos, dir) ==
    LET neighbor_pos == Add(pos, deltas(dir)) IN
    /\ neighbor_pos \in DOMAIN grid
    /\ grid[pos].connectors[dir] # None
    /\ grid[neighbor_pos].connectors[flip(dir)] # None
    /\ links_with(grid[pos].connectors[dir][1],
                  grid[neighbor_pos].connectors[flip(dir)][1])

(* flood_pushes without the push of the cell above *)
flood_pushes_no_above(grid, pos) ==
    (IF connects(grid, pos, South) THEN <<Add(pos, deltas(South))>> ELSE <<>>)
      \o (IF connects(grid, pos, East) THEN <<Add(pos, deltas(East))>> ELSE <<>>)
      \o (IF connects(grid, pos, West) THEN <<Add(pos, deltas(West))>> ELSE <<>>)

(* flood_pushes with the East step left out *)
flood_pushes_no_east(grid, pos) ==
    <<Add(pos, <<0, -1>>)>>
      \o (IF connects(grid, pos, South) THEN <<Add(pos, deltas(South))>> ELSE <<>>)
      \o (IF connects(grid, pos, West) THEN <<Add(pos, deltas(West))>> ELSE <<>>)

flood_pushes(grid, pos) ==
    <<Add(pos, <<0, -1>>)>>
      \o (IF connects(grid, pos, South) THEN <<Add(pos, deltas(South))>> ELSE <<>>)
      \o (IF connects(grid, pos, East) THEN <<Add(pos, deltas(East))>> ELSE <<>>)
      \o (IF connects(grid, pos, West) THEN <<Add(pos, deltas(West))>> ELSE <<>>)

RECURSIVE flood_fill(_, _, _)
flood_fill(grid, queries, stable_poses) ==
    IF queries = <<>> THEN stable_poses
    ELSE LET pos == queries[Len(queries)]
             rest == SubSeq(queries, 1, Len(queries) - 1)
         IN IF pos \in stable_poses
            THEN flood_fill(grid, rest, stable_poses)
            ELSE IF pos \in DOMAIN grid
                 THEN flood_fill(grid, rest \o flood_pushes(grid, pos),
                                 stable_poses \cup {pos})
                 ELSE flood_fill(grid, rest, stable_poses \cup {pos})

compute_stable_poses(grid) == flood_fill(grid, anchor_seeds(grid), {})

(* flood_fill_counted with the push of the cell above made for every new
   coordinate, block or no block *)
RECURSIVE flood_fill_counted_pushing_from_empty(_, _, _, _, _, _)
flood_fill_counted_pushing_from_empty(grid, queries, stable_poses, expanded, steps, fuel) ==
    IF queries = <<>> \/ fuel = 0
    THEN [queries |-> queries, stable_poses |-> stable_poses,
          expanded |-> expanded, steps |-> steps]
    ELSE LET pos == queries[Len(queries)]
             rest == SubSeq(queries, 1, Len(queries) - 1)
         IN IF pos \in stable_poses
            THEN flood_fill_counted_pushing_from_empty(
                     grid, rest, stable_poses, expanded, steps + 1, fuel - 1)
            ELSE IF pos \in DOMAIN grid
                 THEN flood_fill_counted_pushing_from_empty(
                          grid, rest \o flood_pushes(grid, pos),
                          stable_poses \cup {pos}, Append(expanded, pos),
                          steps + 1, fuel - 1)
                 ELSE flood_fill_counted_pushing_from_empty(
                          grid, Append(rest, Add(pos, <<0, -1>>)),
                          stable_poses \cup {pos}, expanded, steps + 1, fuel - 1)

(* The same worklist loop with its iterations counted: steps is the number of
   `queries.pop()` that returned Some, expanded lists the coordinates whose
   block pushed further coordinates, in the order of expansion, and the loop
   is cut off (queries left non-empty) once fuel iterations have run. *)
RECURSIVE flood_fill_counted(_, _, _, _, _, _)
flood_fill_counted(grid, queries, stable_poses, expanded, steps, fuel) ==
    IF queries = <<>> \/ fuel = 0
    THEN [queries |-> queries, stable_poses |-> stable_poses,
          expanded |-> expanded, steps |-> steps]
    ELSE LET pos == queries[Len(queries)]
             rest == SubSeq(queries, 1, Len(queries) - 1)
         IN IF pos \in stable_poses
            THEN flood_fill_counted(grid, rest, stable_poses, expanded,
                                    steps + 1, fuel - 1)
            ELSE IF pos \in DOMAIN grid
                 THEN flood_fill_counted(grid, rest \o flood_pushes(grid, pos),
                                         stable_poses \cup {pos},
                                         Append(expanded, pos),
                                         steps + 1, fuel - 1)
                 ELSE flood_fill_counted(grid, rest, stable_poses \cup {pos},
                                         expanded, steps + 1, fuel - 1)

(* drain_filter: the coordinates that leave the grid *)
(* the unsupported blocks short of those in the top row *)
unsupported_below_top(grid, stable_poses) ==
    {p \in DOMAIN grid \ stable_poses : p[2] > 0}

unsupported(grid, stable_poses) == {p \in DOMAIN grid : p \notin stable_poses}

(* The orders in which drain_filter can yield them (HashMap iteration order) *)
DrainOrders(grid, poses) ==
    {s \in [1..Cardinality(poses) -> poses] :
        \A i, j \in 1..Cardinality(poses) : s[i] = s[j] => i = j}

----------------------------------------------------------------------------
(* Falling-chunk loop (update(), "Update falling blocks") *)

Keep == [tag |-> "Keep", delta |-> 0]
Delete == [tag |-> "Delete", delta |-> 0]
InsertWithDelta(d) == [tag |-> "InsertWithDelta", delta |-> d]

(* `dy as isize` of a non-negative dy kept in sixtieths *)
as_isize(dy60) == dy60 \div 60

(* a fall of one whole row a tick, and of two from the second tick on *)
advance_dy_by_rows(chunk) == chunk.dy + 60 * Min(chunk.time_alive, 2)

(* the step computed with the age after the increment *)
advance_dy_aged(chunk) == chunk.dy + Min(chunk.time_alive + 1, FALL_TERMINAL60)

(* a chunk whose fall progress stays where it is *)
advance_dy_stalled(chunk) == chunk.dy

(* chunk.dy += (FALL_ACCELLERATION * time_alive).min(FALL_TERMINAL) *)
advance_dy(chunk) == chunk.dy + Min(chunk.time_alive, FALL_TERMINAL60)

(* for diff in 0..delta, for one member: the removal so far, and whether
   the scan broke out of 'block *)
RECURSIVE scan_diffs(_, _, _, _, _, _, _, _)
scan_diffs(grid, threshold, pos, block, dyi, delta, diff, removal) ==
    IF diff >= delta THEN [removal |-> removal, broke |-> FALSE]
    ELSE LET passed_y == pos[2] + dyi - diff
             kept == IF passed_y < threshold THEN Keep ELSE removal
             rounded_pos == <<pos[1], passed_y>>
         IN IF is_stable(grid, rounded_pos, block)
            THEN [removal |-> InsertWithDelta(dyi - diff), broke |-> TRUE]
            ELSE scan_diffs(grid, threshold, pos, block, dyi, delta, diff + 1, kept)

(* 'block: for faller_idx in (0..chunk.blocks.len()).rev(); faller_idx is
   1-based here and the scan ends below 1 *)
RECURSIVE scan_blocks(_, _, _, _, _, _, _)
scan_blocks(grid, threshold, blocks, dyi, delta, faller_idx, removal) ==
    IF faller_idx = 0 THEN removal
    ELSE LET r == scan_diffs(grid, threshold, blocks[faller_idx][1],
                             blocks[faller_idx][2], dyi, delta, 0, removal)
         IN IF r.broke THEN r.removal
            ELSE scan_blocks(grid, threshold, blocks, dyi, delta,
                             faller_idx - 1, r.removal)

(* a commit that inserts without looking at the target cell *)
RECURSIVE commit_blocks_overwriting(_, _, _, _)
commit_blocks_overwriting(grid, blocks, delta, i) ==
    IF i > Len(blocks) THEN grid
    ELSE commit_blocks_overwriting(Insert(grid, Add(blocks[i][1], <<0, delta>>), blocks[i][2]),
                                   blocks, delta, i + 1)

(* commit_blocks that inserts no member *)
commit_blocks_dropping(grid, blocks, delta, i) == grid

(* commit_blocks with the offset taken upward *)
RECURSIVE commit_blocks_upward(_, _, _, _)
commit_blocks_upward(grid, blocks, delta, i) ==
    IF i > Len(blocks) THEN grid
    ELSE LET adj_pos == Add(blocks[i][1], <<0, 0 - delta>>) IN
         IF adj_pos \notin DOMAIN grid
         THEN commit_blocks_upward(Insert(grid, adj_pos, blocks[i][2]), blocks, delta, i + 1)
         ELSE commit_blocks_upward(grid, blocks, delta, i + 1)

(* Removal::InsertWithDelta: for (pos, block) in chunk.blocks *)
RECURSIVE commit_blocks(_, _, _, _)
commit_blocks(grid, blocks, delta, i) ==
    IF i > Len(blocks) THEN grid
    ELSE LET adj_pos == Add(blocks[i][1], <<0, delta>>) IN
         IF adj_pos \notin DOMAIN grid
         THEN commit_blocks(Insert(grid, adj_pos, blocks[i][2]), blocks, delta, i + 1)
         ELSE commit_blocks(grid, blocks, delta, i + 1)

RemoveAt(seq, i) == SubSeq(seq, 1, i - 1) \o SubSeq(seq, i + 1, Len(seq))

(* an iteration that also takes the blocks of the other falling chunks, at
   the rows they have fallen to, for blocks a member can link with *)
process_chunk_among_chunks(grid, falling, threshold, chunk_idx) ==
    LET chunk == falling[chunk_idx]
        original_dy == chunk.dy
        dy == advance_dy(chunk)
        delta == as_isize(dy) - (as_isize(original_dy) - 1)
        moved == [chunk EXCEPT !.dy = dy, !.time_alive = @ + 1]
        others == {<<j, i>> \in (1..Len(falling)) \X (1..4) :
                     j # chunk_idx /\ i <= Len(falling[j].blocks)}
        at(ji) == Add(falling[ji[1]].blocks[ji[2]][1], <<0, as_isize(falling[ji[1]].dy)>>)
        crowded == [p \in DOMAIN grid \cup {at(ji) : ji \in others} |->
                      IF p \in DOMAIN grid THEN grid[p]
                      ELSE LET ji == CHOOSE o \in others : at(o) = p
                           IN falling[ji[1]].blocks[ji[2]][2]]
        removal == scan_blocks(crowded, threshold, chunk.blocks, as_isize(dy), delta,
                               Len(chunk.blocks), Delete)
    IN [removal |-> removal,
        chunk |-> moved,
        original_dy |-> original_dy,
        stable |-> IF removal.tag = "InsertWithDelta"
                   THEN commit_blocks(grid, chunk.blocks, removal.delta, 1)
                   ELSE grid,
        falling |-> IF removal.tag = "Keep"
                    THEN [falling EXCEPT ![chunk_idx] = moved]
                    ELSE RemoveAt(falling, chunk_idx)]

(* One iteration of `for chunk_idx in (0..len).rev()`: the chunk advanced,
   what becomes of it, and the grid and chunk list it leaves. *)
process_chunk(grid, falling, threshold, chunk_idx) ==
    LET chunk == falling[chunk_idx]
        original_dy == chunk.dy
        dy == advance_dy(chunk)
        delta == as_isize(dy) - (as_isize(original_dy) - 1)
        moved == [chunk EXCEPT !.dy = dy, !.time_alive = @ + 1]
        removal == scan_blocks(grid, threshold, chunk.blocks, as_isize(dy), delta,
                               Len(chunk.blocks), Delete)
    IN [removal |-> removal,
        chunk |-> moved,
        original_dy |-> original_dy,
        stable |-> IF removal.tag = "InsertWithDelta"
                   THEN commit_blocks(grid, chunk.blocks, removal.delta, 1)
                   ELSE grid,
        falling |-> IF removal.tag = "Keep"
                    THEN [falling EXCEPT ![chunk_idx] = moved]
                    ELSE RemoveAt(falling, chunk_idx)]

(* The loop.  events lists, in the order of processing, what became of each
   chunk: the chunk as advanced, its removal, and for an InsertWithDelta the
   grid before and after the commit (<<>> otherwise). *)
RECURSIVE process_chunks(_, _, _, _, _)
process_chunks(grid, falling, threshold, chunk_idx, events) ==
    IF chunk_idx = 0
    THEN [stable |-> grid, falling |-> falling, events |-> events]
    ELSE LET r == process_chunk(grid, falling, threshold, chunk_idx)
             committed == r.removal.tag = "InsertWithDelta"
         IN process_chunks(r.stable, r.falling, threshold, chunk_idx - 1,
                           Append(events, [removal |-> r.removal,
                                           chunk |-> r.chunk,
                                           original_dy |-> r.original_dy,
                                           grid_before |-> IF committed THEN grid ELSE <<>>,
                                           grid_after |-> IF committed THEN r.stable ELSE <<>>]))

----------------------------------------------------------------------------
(* Blocks the model draws: outcomes of QuadRand.gen() *)

SqOut == [shape |-> "Square", sticks_out |-> TRUE]
SqIn == [shape |-> "Square", sticks_out |-> FALSE]
RdOut == [shape |-> "Round", sticks_out |-> TRUE]
RdIn == [shape |-> "Round", sticks_out |-> FALSE]

Conns(n, e, s, w) == [d \in 0..3 |-> <<n, e, s, w>>[d + 1]]

MkBlock(kind, connectors, id) ==
    [kind |-> kind, damage |-> 0, connectors |-> connectors, id |-> id]

(* East connectors drawn for the four anchors of the left wall, top to
   bottom, and the one drawn for every anchor of the right wall *)
LeftAnchorDraws == {<<RdOut, SqOut, SqOut, SqOut>>}
RightAnchorDraw == SqOut

(* kind and connectors of the blocks the conveyor is given *)
Joint == <<"Scaffold", Conns(None, Some(SqOut), Some(SqOut), Some(SqIn))>>
Hang == <<"Solid", Conns(Some(SqIn), None, None, None)>>
WallAnchor == <<"Anchor", Conns(None, Some(SqOut), None, None)>>
InitConveyorDraw == <<Joint, Hang, Joint, WallAnchor, Joint, Hang, Joint>>
GenDraws == {Joint}

(* where the mouse goes *)
PickSlots == {0, 1}
PlaceCells == {<<-4, 0>>, <<-4, 1>>, <<-4, 2>>, <<-3, 1>>, <<-5, 4>>}
ClickCells == {<<-4, 1>>}
ConveyorPos == <<7, 5>>

(* the later frames at which the player acts: as a chunk that began to fall
   on frame 1 is about to cross its first row *)
LateFrames == {10, 11}

----------------------------------------------------------------------------
(* new() *)

anchor_x(side) == ((CHASM_WIDTH + 1) \div 2) * (IF side = 0 THEN -1 ELSE 1)

new_stable_blocks(left) ==
    [p \in {<<anchor_x(side), depth>> : side \in 0..1, depth \in 0..3} |->
        IF p[1] < 0
        THEN MkBlock("Anchor", Conns(None, Some(left[p[2] + 1]), None, None),
                     p[2] + 1)
        ELSE MkBlock("Anchor", Conns(None, None, None, Some(RightAnchorDraw)),
                     p[2] + 5)]

(* tick before the first update(): no call has been made *)
NoTick ==
    [input |-> <<>>, grid_in |-> <<>>, grid_damaged |-> <<>>, chunk |-> <<>>,
     grid_drained |-> <<>>, events |-> <<>>, placed |-> None]

Init ==
    /\ \E left \in LeftAnchorDraws : stable_blocks = new_stable_blocks(left)
    /\ falling_blocks = <<>>
    /\ conveyor_blocks = [i \in 1..CONVEYOR_MAX_SIZE |->
                            MkBlock(InitConveyorDraw[i][1], InitConveyorDraw[i][2], 8 + i)]
    /\ held = None
    /\ blocks_left = BLOCK_ALLOWANCE
    /\ max_depth = 0
    /\ center_of_mass = <<0, 1>>
    /\ frames_elapsed = 0
    /\ tick = NoTick
    /\ player = [acts |-> 0, since |-> 0]

----------------------------------------------------------------------------
(* handle_input *)

rotate_left(connectors) == [d \in 0..3 |-> connectors[(d + 1) % 4]]
rotate_right(connectors) == [d \in 0..3 |-> connectors[(d + 3) % 4]]

(* the id of the block the conveyor is given next *)
NextId == 8 + CONVEYOR_MAX_SIZE + (BLOCK_ALLOWANCE - blocks_left) + 1

(* the placement test without the look at the target cell *)
placement_ok_overwriting(grid, block, blockpos) ==
    /\ is_valid_pos(block, blockpos)
    /\ block.kind = "Anchor" => can_anchor_be_placed(grid, blockpos, block)

(* the placement test of the release branch *)
placement_ok(grid, block, blockpos) ==
    LET valid_pos == is_valid_pos(block, blockpos)
        anchored_ok == IF block.kind = "Anchor"
                       THEN can_anchor_be_placed(grid, blockpos, block)
                       ELSE TRUE
    IN valid_pos /\ anchored_ok /\ blockpos \notin DOMAIN grid

(* handle_input taking the slot under the mouse without the look at the
   conveyor's length *)
handle_input_unchecked_pick(in, gen) ==
    IF held = None
    THEN [stable |-> IF /\ in.pressed
                        /\ in.blockpos \in DOMAIN stable_blocks
                        /\ is_removable(stable_blocks[in.blockpos])
                     THEN [stable_blocks EXCEPT ![in.blockpos].damage = @ + 1]
                     ELSE stable_blocks,
          conveyor |-> conveyor_blocks,
          held |-> IF in.down /\ in.slot # None THEN Some(in.slot[1]) ELSE None,
          blocks_left |-> blocks_left,
          placed |-> None]
    ELSE LET idx == held[1]
             rotated == IF in.scroll > 0
                        THEN [conveyor_blocks EXCEPT ![idx + 1].connectors = rotate_left(@)]
                        ELSE IF in.scroll < 0
                        THEN [conveyor_blocks EXCEPT ![idx + 1].connectors = rotate_right(@)]
                        ELSE conveyor_blocks
             block == rotated[idx + 1]
         IN IF in.down
            THEN [stable |-> stable_blocks, conveyor |-> rotated, held |-> held,
                  blocks_left |-> blocks_left, placed |-> None]
            ELSE IF placement_ok(stable_blocks, block, in.blockpos)
            THEN [stable |-> Insert(stable_blocks, in.blockpos, block),
                  conveyor |-> IF blocks_left > 0
                               THEN Append(RemoveAt(rotated, idx + 1), gen)
                               ELSE RemoveAt(rotated, idx + 1),
                  held |-> None,
                  blocks_left |-> IF blocks_left > 0 THEN blocks_left - 1 ELSE blocks_left,
                  placed |-> Some(in.blockpos)]
            ELSE [stable |-> stable_blocks, conveyor |-> rotated, held |-> None,
                  blocks_left |-> blocks_left, placed |-> None]

(* in: [down, pressed, scroll, slot, blockpos]: the left button is down, it
   went down on this frame, the wheel's sign, the conveyor slot under the
   mouse (Option) and pixel_to_block of the mouse.  gen: the block QuadRand
   draws if the conveyor is refilled. *)
handle_input(in, gen) ==
    IF held = None
    THEN [stable |-> IF /\ in.pressed
                        /\ in.blockpos \in DOMAIN stable_blocks
                        /\ is_removable(stable_blocks[in.blockpos])
                     THEN [stable_blocks EXCEPT ![in.blockpos].damage = @ + 1]
                     ELSE stable_blocks,
          conveyor |-> conveyor_blocks,
          held |-> IF /\ in.down
                      /\ in.slot # None
                      /\ Len(conveyor_blocks) > in.slot[1]
                   THEN Some(in.slot[1])
                   ELSE None,
          blocks_left |-> blocks_left,
          placed |-> None]
    ELSE LET idx == held[1]
             rotated == IF in.scroll > 0
                        THEN [conveyor_blocks EXCEPT ![idx + 1].connectors = rotate_left(@)]
                        ELSE IF in.scroll < 0
                        THEN [conveyor_blocks EXCEPT ![idx + 1].connectors = rotate_right(@)]
                        ELSE conveyor_blocks
             block == rotated[idx + 1]
         IN IF in.down
            THEN [stable |-> stable_blocks, conveyor |-> rotated, held |-> held,
                  blocks_left |-> blocks_left, placed |-> None]
            ELSE IF placement_ok(stable_blocks, block, in.blockpos)
            THEN [stable |-> Insert(stable_blocks, in.blockpos, block),
                  conveyor |-> IF blocks_left > 0
                               THEN Append(RemoveAt(rotated, idx + 1), gen)
                               ELSE RemoveAt(rotated, idx + 1),
                  held |-> None,
                  blocks_left |-> IF blocks_left > 0 THEN blocks_left - 1 ELSE blocks_left,
                  placed |-> Some(in.blockpos)]
            ELSE [stable |-> stable_blocks, conveyor |-> rotated, held |-> None,
                  blocks_left |-> blocks_left, placed |-> None]

----------------------------------------------------------------------------
(* update() *)

(* the threshold without the margin below the view *)
chunk_threshold_no_margin(depth) == depth

chunk_threshold(depth) == depth + BOTTOM_VIEW_SIZE * 2

(* trials made on every tick *)
HitSets_every_tick(grid) ==
    {hits \in SUBSET {p \in DOMAIN grid : CanBeHit(grid, p)} : Cardinality(hits) <= MaxHits}

(* The sets gen_bool's successes can form on this tick: trials are made
   on the cadence only, and a trial of chance 0 never succeeds. *)
HitSets(grid) ==
    IF frames_elapsed % BREAK_TIMER = 0
    THEN {hits \in SUBSET {p \in DOMAIN grid : CanBeHit(grid, p)} :
            Cardinality(hits) <= MaxHits}
    ELSE {{}}

(* The rest of update() once handle_input has returned hi, with the
   outcomes of the Bernoulli trials (damaged is the grid the damage loop
   leaves) and of the HashMap's iteration order in drain_filter (order). *)
UpdateAfterInput(in, hi, damaged, stable_poses, order) ==
    LET depth == compute_max_depth(hi.stable)
        falling_chunk == [blocks |-> [i \in 1..Len(order) |-> <<order[i], damaged[order[i]]>>],
                          dy |-> 0, time_alive |-> 0]
        drained == Remove(damaged, unsupported(damaged, stable_poses))
        pushed == Append(falling_blocks, falling_chunk)
        fallen == process_chunks(drained, pushed, chunk_threshold(depth), Len(pushed), <<>>)
    IN /\ stable_blocks' = fallen.stable
       /\ falling_blocks' = fallen.falling
       /\ conveyor_blocks' = hi.conveyor
       /\ held' = hi.held
       /\ blocks_left' = hi.blocks_left
       /\ max_depth' = depth
       /\ center_of_mass' = compute_center_of_mass(hi.stable)
       /\ frames_elapsed' = frames_elapsed + 1
       /\ tick' = [input |-> in, grid_in |-> hi.stable, grid_damaged |-> damaged,
                   chunk |-> falling_chunk, grid_drained |-> drained,
                   events |-> fallen.events, placed |-> hi.placed]

(* update() with the supported set computed before the damage loop *)
Update_stability_before_damage(in) ==
    \E gen \in GenDraws :
      LET hi == handle_input(in, MkBlock(gen[1], gen[2], NextId)) IN
      \E hits \in HitSets(hi.stable) :
        LET damaged == damage_pass(hi.stable, hits)
            stable_poses == compute_stable_poses(hi.stable)
        IN \E order \in DrainOrders(damaged, unsupported(damaged, stable_poses)) :
             UpdateAfterInput(in, hi, damaged, stable_poses, order)

(* update() with the stability pass blind to the block just placed *)
Update_blind_to_placed(in) ==
    \E gen \in GenDraws :
      LET hi == handle_input(in, MkBlock(gen[1], gen[2], NextId)) IN
      \E hits \in HitSets(hi.stable) :
        LET damaged == damage_pass(hi.stable, hits)
            stable_poses == compute_stable_poses(damaged)
                              \cup (IF hi.placed # None THEN {hi.placed[1]} ELSE {})
        IN \E order \in DrainOrders(damaged, unsupported(damaged, stable_poses)) :
             UpdateAfterInput(in, hi, damaged, stable_poses, order)

(* One call of update() on input in, over the outcomes it can meet *)
Update(in) ==
    \E gen \in GenDraws :
      LET hi == handle_input(in, MkBlock(gen[1], gen[2], NextId)) IN
      \E hits \in HitSets(hi.stable) :
        LET damaged == damage_pass(hi.stable, hits)
            stable_poses == compute_stable_poses(damaged)
        IN \E order \in DrainOrders(damaged, unsupported(damaged, stable_poses)) :
             UpdateAfterInput(in, hi, damaged, stable_poses, order)

MouseAway == [down |-> FALSE, pressed |-> FALSE, scroll |-> 0, slot |-> None,
              blockpos |-> ConveyorPos]

(* The player acts while allowed to, and otherwise waits only for a fall *)
CanAct ==
    /\ player.acts < MaxActs
    /\ \/ frames_elapsed - player.since < EarlyFrames
       \/ frames_elapsed - player.since \in LateFrames
AtRest == falling_blocks = <<>>
Acted == player' = [player EXCEPT !.acts = @ + 1]

UpdateIdle ==
    /\ held = None
    /\ IF AtRest
       THEN ~CanAct /\ frames_elapsed < MaxFrames
       ELSE frames_elapsed < MaxFallFrames
    /\ Update(MouseAway)
    /\ UNCHANGED player

UpdatePickUp ==
    /\ CanAct
    /\ held = None
    /\ \E slot \in PickSlots :
         Update([MouseAway EXCEPT !.down = TRUE, !.pressed = TRUE, !.slot = Some(slot)])
    /\ Acted

UpdateClick ==
    /\ CanAct
    /\ held = None
    /\ \E pos \in ClickCells :
         Update([MouseAway EXCEPT !.down = TRUE, !.pressed = TRUE, !.blockpos = pos])
    /\ Acted

UpdateRotate ==
    /\ CanAct
    /\ held # None
    /\ \E scroll \in {-1, 1} :
         Update([MouseAway EXCEPT !.down = TRUE, !.scroll = scroll])
    /\ Acted

UpdateRelease ==
    /\ held # None
    /\ \E pos \in PlaceCells :
         Update([MouseAway EXCEPT !.blockpos = pos])
    /\ UNCHANGED player

Next ==
    \/ UpdateIdle
    \/ UpdatePickUp
    \/ UpdateClick
    \/ UpdateRotate
    \/ UpdateRelease

Spec == Init /\ [][Next]_vars

----------------------------------------------------------------------------
(* A later state of the same game.  From new() with the draws of Init, the
   player picks slot 0 and releases at (-4, 1), picks slot 0 and releases at
   (-4, 2), picks slot 0 and releases at (-4, 0) (frames 0 to 5), and then
   clicks (-4, 1) on each of the frames 6 to 13: the Joint at (-4, 1), bonded
   to the anchor beside it, carries the Hang below it and the Joint resting
   on it, and has taken 8 of the 9 clicks that destroy it.  InitWorn is the
   state those fourteen updates leave, with the history emptied and the
   player's count begun afresh. *)

WornGrid ==
    LET left == CHOOSE l \in LeftAnchorDraws : TRUE IN
    (<<-4, 1>> :> [MkBlock(Joint[1], Joint[2], 9) EXCEPT !.damage = 8])
      @@ (<<-4, 2>> :> MkBlock(Hang[1], Hang[2], 10))
      @@ (<<-4, 0>> :> MkBlock(Joint[1], Joint[2], 11))
      @@ new_stable_blocks(left)

WornConveyor ==
    <<MkBlock(WallAnchor[1], WallAnchor[2], 12), MkBlock(Joint[1], Joint[2], 13),
      MkBlock(Hang[1], Hang[2], 14), MkBlock(Joint[1], Joint[2], 15),
      MkBlock(Joint[1], Joint[2], 16), MkBlock(Joint[1], Joint[2], 17),
      MkBlock(Joint[1], Joint[2], 18)>>

WornFrames == 3 * 2 + 8

InitWorn ==
    /\ stable_blocks = WornGrid
    /\ falling_blocks = <<>>
    /\ conveyor_blocks = WornConveyor
    /\ held = None
    /\ blocks_left = BLOCK_ALLOWANCE - 3
    /\ max_depth = 3
    /\ center_of_mass = <<11, 7>>
    /\ frames_elapsed = WornFrames
    /\ tick = NoTick
    /\ player = [acts |-> 0, since |-> WornFrames]

(* The game from new(), and the same game taken up from the later state *)
SpecDeep == (Init \/ InitWorn) /\ [][Next]_vars

(* The program variables of InitWorn *)
AtWorn ==
    /\ stable_blocks = WornGrid
    /\ falling_blocks = <<>>
    /\ conveyor_blocks = WornConveyor
    /\ held = None
    /\ blocks_left = BLOCK_ALLOWANCE - 3
    /\ max_depth = 3
    /\ center_of_mass = <<11, 7>>
    /\ frames_elapsed = WornFrames

----------------------------------------------------------------------------
(* The end of the same game.  From new() with the draws of Init, the player
   picks a block on every even frame and releases it at (-3, 1) on the next,
   where nothing holds it: slot 0 three times, and from then on slot 1, so
   that the WallAnchor stays at slot 0.  After 105 placements (frame 210) the
   allowance is spent and two blocks are left on the conveyor; 48 idle frames
   later the last chunk has fallen out of the world.  InitSpent is the state
   those calls leave, with the history emptied and the player's count begun
   afresh. *)

SpentConveyor ==
    <<MkBlock(WallAnchor[1], WallAnchor[2], 12),
      MkBlock(Joint[1], Joint[2], 8 + CONVEYOR_MAX_SIZE + BLOCK_ALLOWANCE)>>

SpentFrames == (BLOCK_ALLOWANCE + 5) * 2 + 48

InitSpent ==
    /\ \E left \in LeftAnchorDraws : stable_blocks = new_stable_blocks(left)
    /\ falling_blocks = <<>>
    /\ conveyor_blocks = SpentConveyor
    /\ held = None
    /\ blocks_left = 0
    /\ max_depth = 3
    /\ center_of_mass = <<0, 1>>
    /\ frames_elapsed = SpentFrames
    /\ tick = NoTick
    /\ player = [acts |-> 0, since |-> SpentFrames]

(* A complete row.  From new() with the draws of Init, the player picks a
   Scaffold on every even frame (slots 0, 1, 2 and then 3 each time, leaving
   the Solids and the WallAnchor on the conveyor) and releases it on the
   next at (-4, 1), (-3, 1), ... (4, 1): each bonds with the block to its
   West, the first with the anchor at (-5, 1).  InitRow is the state those
   eighteen updates leave, with the history emptied. *)

RowGrid ==
    LET left == CHOOSE l \in LeftAnchorDraws : TRUE
        ids == <<9, 11, 13, 15, 16, 17, 18, 19, 20>>
    IN [p \in {<<x, 1>> : x \in -4..4} |-> MkBlock(Joint[1], Joint[2], ids[p[1] + 5])]
         @@ new_stable_blocks(left)

RowConveyor ==
    <<MkBlock(Hang[1], Hang[2], 10), MkBlock(WallAnchor[1], WallAnchor[2], 12),
      MkBlock(Hang[1], Hang[2], 14), MkBlock(Joint[1], Joint[2], 21),
      MkBlock(Joint[1], Joint[2], 22), MkBlock(Joint[1], Joint[2], 23),
      MkBlock(Joint[1], Joint[2], 24)>>

RowFrames == CHASM_WIDTH * 2

InitRow ==
    /\ stable_blocks = RowGrid
    /\ falling_blocks = <<>>
    /\ conveyor_blocks = RowConveyor
    /\ held = None
    /\ blocks_left = BLOCK_ALLOWANCE - CHASM_WIDTH
    /\ max_depth = 3
    /\ center_of_mass = <<9, 9>>
    /\ frames_elapsed = RowFrames
    /\ tick = NoTick
    /\ player = [acts |-> 0, since |-> RowFrames]

(* The program variables of InitRow *)
AtRow ==
    /\ stable_blocks = RowGrid
    /\ falling_blocks = <<>>
    /\ conveyor_blocks = RowConveyor
    /\ held = None
    /\ blocks_left = BLOCK_ALLOWANCE - CHASM_WIDTH
    /\ max_depth = 3
    /\ center_of_mass = <<9, 9>>
    /\ frames_elapsed = RowFrames

(* The game from new(), and the same game taken up from the later states *)
SpecLate == (Init \/ InitSpent \/ InitRow) /\ [][Next]_vars

(* The program variables of InitSpent *)
AtSpent ==
    /\ stable_blocks = new_stable_blocks(CHOOSE l \in LeftAnchorDraws : TRUE)
    /\ falling_blocks = <<>>
    /\ conveyor_blocks = SpentConveyor
    /\ held = None
    /\ blocks_left = 0
    /\ max_depth = 3
    /\ center_of_mass = <<0, 1>>
    /\ frames_elapsed = SpentFrames

----------------------------------------------------------------------------
(* Properties.  What the specification of the game says, stated without the
   operators above: the bond rule and the supported set as a least fixed
   point. *)

Ticked == tick.events # <<>>

Bonds(a, b) == a.shape = b.shape /\ a.sticks_out # b.sticks_out

(* the blocks at p and at the cell next to it in direction dir carry facing
   connectors that bond *)
BondedStep(grid, p, dir) ==
    LET q == Add(p, deltas(dir)) IN
    /\ p \in DOMAIN grid
    /\ q \in DOMAIN grid
    /\ grid[p].connectors[dir] # <<>>
    /\ grid[q].connectors[(dir + 2) % 4] # <<>>
    /\ Bonds(grid[p].connectors[dir][1], grid[q].connectors[(dir + 2) % 4][1])

AnchorCells(grid) == {p \in DOMAIN grid : grid[p].kind = "Anchor"}

(* one step of the supported set: South, East or West over a bond, or up *)
SupportStep(grid, q, p) ==
    \/ p = Add(q, <<0, -1>>)
    \/ \E dir \in {South, East, West} : p = Add(q, deltas(dir)) /\ BondedStep(grid, q, dir)

RECURSIVE SupportClosure(_, _)
SupportClosure(grid, R) ==
    LET more == {p \in DOMAIN grid \ R : \E q \in R : SupportStep(grid, q, p)} IN
    IF more = {} THEN R ELSE SupportClosure(grid, R \cup more)

Supported(grid) == SupportClosure(grid, AnchorCells(grid))

(* the blocks joined to an anchor by a chain of bonds, in any direction *)
RECURSIVE BondClosure(_, _)
BondClosure(grid, R) ==
    LET more == {p \in DOMAIN grid \ R :
                   \E q \in R : \E dir \in 0..3 :
                      p = Add(q, deltas(dir)) /\ BondedStep(grid, q, dir)} IN
    IF more = {} THEN R ELSE BondClosure(grid, R \cup more)

BondChained(grid) == BondClosure(grid, AnchorCells(grid))

Restrict(grid, poses) == [p \in DOMAIN grid \cap poses |-> grid[p]]

(* the members of a chunk, as a set of <<coordinate, block>> *)
Members(blocks) == {blocks[i] : i \in 1..Len(blocks)}

(* C1: the blocks that survive the stability pass of update() are exactly
   those whose coordinate is reachable from an anchor's by steps South, East
   or West over a bond or up onto the cell above a reached block; every
   block joined to an anchor by a chain of bonds is kept, no other block
   is, and the kept blocks are unchanged. *)
C1_StabilityPassIsReachability ==
    Ticked =>
        /\ DOMAIN tick.grid_drained = Supported(tick.grid_damaged)
        /\ BondChained(tick.grid_damaged) \subseteq DOMAIN tick.grid_drained
        /\ tick.grid_drained = Restrict(tick.grid_damaged, DOMAIN tick.grid_drained)

(* a pass that keeps a block for its bond alone (nothing below it) and
   drops another block *)
C1_Witness ==
    /\ Ticked
    /\ tick.chunk.blocks # <<>>
    /\ \E p \in DOMAIN tick.grid_drained :
         /\ tick.grid_drained[p].kind # "Anchor"
         /\ Add(p, <<0, 1>>) \notin DOMAIN tick.grid_damaged
         /\ \E dir \in {East, South, West} :
              BondedStep(tick.grid_damaged, Add(p, deltas((dir + 2) % 4)), dir)

(* C2: between ticks every block of the stable grid is reachable from an
   anchor by bonds and resting contact. *)
C2_StableGridReachable ==
    DOMAIN stable_blocks = Supported(stable_blocks)

(* C3: a block one row above a block the pass keeps is kept by that pass,
   whatever its connectors. *)
C3_RestingContact ==
    Ticked =>
        \A p \in DOMAIN tick.grid_damaged :
            Add(p, <<0, 1>>) \in DOMAIN tick.grid_drained => p \in DOMAIN tick.grid_drained

(* a kept block that bonds with nothing and rests on a kept block that is
   no anchor *)
C3_Witness ==
    /\ Ticked
    /\ \E p \in DOMAIN tick.grid_drained :
         /\ tick.grid_drained[p].kind # "Anchor"
         /\ Add(p, <<0, 1>>) \in DOMAIN tick.grid_drained
         /\ \A dir \in 0..3 :
              /\ ~BondedStep(tick.grid_damaged, p, dir)
              /\ ~BondedStep(tick.grid_damaged, Add(p, deltas(dir)), (dir + 2) % 4)

(* C4: the stability pass keeps every anchor of the grid, and no falling
   chunk ever holds an anchor. *)
C4_AnchorsNeverFall ==
    /\ \A i \in 1..Len(falling_blocks) :
         \A m \in Members(falling_blocks[i].blocks) : m[2].kind # "Anchor"
    /\ Ticked =>
         /\ AnchorCells(tick.grid_damaged) \subseteq DOMAIN tick.grid_drained
         /\ \A m \in Members(tick.chunk.blocks) : m[2].kind # "Anchor"

(* a pass that drops a block while an anchor with nothing under it and no
   bond stays *)
C4_Witness ==
    /\ Ticked
    /\ tick.chunk.blocks # <<>>
    /\ falling_blocks # <<>>
    /\ \E p \in AnchorCells(stable_blocks) :
         /\ Add(p, <<0, 1>>) \notin DOMAIN stable_blocks
         /\ \A dir \in 0..3 : ~BondedStep(stable_blocks, p, dir)

GridIds(grid) == {grid[p].id : p \in DOMAIN grid}
ChunkIds(blocks) == {blocks[i][2].id : i \in 1..Len(blocks)}
ChunkCells(blocks) == {blocks[i][1] : i \in 1..Len(blocks)}

(* C5: the blocks a tick's stability pass finds unsupported all leave the
   stable grid and form one new chunk of exactly those blocks at their
   original coordinates, with fall progress 0 and age 0; no supported block
   is in it, and no other chunk is created in the tick. *)
C5_ChunkCreation ==
    Ticked =>
        LET g == tick.grid_damaged
            loose == DOMAIN g \ Supported(g)
            fresh == {i \in 1..Len(falling_blocks) : falling_blocks[i].time_alive = 1}
        IN /\ tick.chunk.dy = 0
           /\ tick.chunk.time_alive = 0
           /\ ChunkCells(tick.chunk.blocks) = loose
           /\ Len(tick.chunk.blocks) = Cardinality(loose)
           /\ \A m \in Members(tick.chunk.blocks) : m[2] = g[m[1]]
           /\ DOMAIN tick.grid_drained = DOMAIN g \ loose
           /\ tick.events[1].chunk.blocks = tick.chunk.blocks
           /\ tick.events[1].original_dy = 0
           /\ \A k \in 2..Len(tick.events) : tick.events[k].chunk.time_alive > 1
           /\ \A i \in fresh : /\ i = Len(falling_blocks)
                               /\ falling_blocks[i].blocks = tick.chunk.blocks

(* a tick whose new chunk holds two blocks that do not touch, while other
   blocks than anchors stay *)
C5_Witness ==
    /\ Ticked
    /\ \E m, n \in Members(tick.chunk.blocks) :
         m[1][1] = n[1][1] /\ m[1][2] + 1 < n[1][2]
    /\ falling_blocks # <<>>
    /\ falling_blocks[Len(falling_blocks)].blocks = tick.chunk.blocks

(* C6: every block is in one place at most: the blocks of the stable grid
   and of all the falling chunks are pairwise distinct, and a coordinate of
   the stable grid holds one block. *)
C6_Disjointness ==
    LET chunk_ids == UNION {ChunkIds(falling_blocks[i].blocks) : i \in 1..Len(falling_blocks)} IN
    /\ Cardinality(GridIds(stable_blocks)) = Cardinality(DOMAIN stable_blocks)
    /\ GridIds(stable_blocks) \cap chunk_ids = {}
    /\ \A i \in 1..Len(falling_blocks) :
         /\ Cardinality(ChunkIds(falling_blocks[i].blocks)) = Len(falling_blocks[i].blocks)
         /\ \A j \in 1..Len(falling_blocks) :
              i # j => ChunkIds(falling_blocks[i].blocks) \cap ChunkIds(falling_blocks[j].blocks) = {}

(* two chunks falling at once, a tick after the later one left the grid *)
C6_Witness ==
    /\ Len(falling_blocks) >= 2
    /\ \A i \in 1..Len(falling_blocks) : falling_blocks[i].blocks # <<>>
    /\ falling_blocks[Len(falling_blocks)].time_alive = 2

(* the connectors two neighbouring blocks of the grid turn to each other *)
FacingPairs(grid) ==
    {<<grid[p].connectors[dir][1], grid[Add(p, deltas(dir))].connectors[(dir + 2) % 4][1]>> :
       <<p, dir>> \in {pd \in (DOMAIN grid) \X (0..3) :
                        /\ Add(pd[1], deltas(pd[2])) \in DOMAIN grid
                        /\ grid[pd[1]].connectors[pd[2]] # None
                        /\ grid[Add(pd[1], deltas(pd[2]))].connectors[(pd[2] + 2) % 4] # None}}

(* C7: links_with(a, b) = links_with(b, a) for all connectors a and b (every
   shape, both values of sticks_out), those that face each other on the
   grid among them, and links_with(a, b) holds exactly when the shapes are
   equal and the sticks_out flags differ. *)
C7_LinksWithSymmetric ==
    \A ab \in (Connector \X Connector) \cup FacingPairs(stable_blocks) :
        /\ links_with(ab[1], ab[2]) = links_with(ab[2], ab[1])
        /\ links_with(ab[1], ab[2]) <=>
             (ab[1].shape = ab[2].shape /\ ab[1].sticks_out # ab[2].sticks_out)

(* a placed block and its neighbour to the West with facing connectors, one
   sticking out and one not, that link both ways *)
C7_Witness ==
    \E p \in DOMAIN stable_blocks :
        LET q == Add(p, deltas(West)) IN
        /\ stable_blocks[p].kind # "Anchor"
        /\ q \in DOMAIN stable_blocks
        /\ stable_blocks[p].connectors[West] # None
        /\ stable_blocks[q].connectors[East] # None
        /\ ~stable_blocks[p].connectors[West][1].sticks_out
        /\ stable_blocks[q].connectors[East][1].sticks_out
        /\ links_with(stable_blocks[p].connectors[West][1], stable_blocks[q].connectors[East][1])
        /\ links_with(stable_blocks[q].connectors[East][1], stable_blocks[p].connectors[West][1])

Commits == {k \in 1..Len(tick.events) : tick.events[k].removal.tag = "InsertWithDelta"}
Target(m, d) == Add(m[1], <<0, d>>)

(* C8: when a chunk re-attaches with offset d, each member whose target
   cell (its coordinate moved down by d) is free is inserted there; a member
   whose target is occupied is discarded and the block in that cell stays as
   it was; nothing else in the grid changes; the chunk leaves the falling
   set. *)
C8_CommitNeverOverwrites ==
    \A k \in Commits :
        LET e == tick.events[k]
            d == e.removal.delta
            ms == Members(e.chunk.blocks)
        IN /\ \A p \in DOMAIN e.grid_before :
                p \in DOMAIN e.grid_after /\ e.grid_after[p] = e.grid_before[p]
           /\ \A m \in ms :
                IF Target(m, d) \in DOMAIN e.grid_before
                THEN m[2].id \notin GridIds(e.grid_after)
                ELSE /\ Target(m, d) \in DOMAIN e.grid_after
                     /\ e.grid_after[Target(m, d)] = m[2]
           /\ DOMAIN e.grid_after = DOMAIN e.grid_before \cup {Target(m, d) : m \in ms}
           /\ \A i \in 1..Len(falling_blocks) :
                ChunkIds(falling_blocks[i].blocks) \cap ChunkIds(e.chunk.blocks) = {}

(* a re-attachment in which one member finds its target occupied and
   another member is inserted *)
C8_Witness ==
    \E k \in Commits :
        LET e == tick.events[k] IN
        /\ \E m \in Members(e.chunk.blocks) :
             /\ Target(m, e.removal.delta) \in DOMAIN e.grid_before
             /\ m[2].id \notin GridIds(stable_blocks)
        /\ \E m \in Members(e.chunk.blocks) :
             /\ Target(m, e.removal.delta) \notin DOMAIN e.grid_before
             /\ m[2].id \in GridIds(stable_blocks)

Deletes == {k \in 1..Len(tick.events) : tick.events[k].removal.tag = "Delete"}

(* the rows a member is at or passes in the tick of event e: from its row
   before the tick's move to its row after it *)
SweptRows(e, m) ==
    (m[1][2] + (e.original_dy \div 60)) .. (m[1][2] + (e.chunk.dy \div 60))

DiscardThreshold == max_depth + 2 * BOTTOM_VIEW_SIZE

(* every chunk of the next state is new or is a chunk of this state, a tick
   older *)
ChunksContinue ==
    \A i \in 1..Len(falling_blocks') :
        \/ falling_blocks'[i].time_alive = 1
        \/ \E j \in 1..Len(falling_blocks) :
             /\ falling_blocks[j].blocks = falling_blocks'[i].blocks
             /\ falling_blocks[j].time_alive + 1 = falling_blocks'[i].time_alive

(* C9: a chunk no member of which finds support and all of whose members
   are, through the whole of the tick's move, at or past the threshold
   max_depth + 2 * BOTTOM_VIEW_SIZE leaves the falling set in that tick,
   none of its blocks enters the stable grid and it is never in the falling
   set again; a chunk with a member above the threshold is not discarded. *)
C9_Discard ==
    /\ [](\A k \in 1..Len(tick.events) :
            LET e == tick.events[k]
                past == \A m \in Members(e.chunk.blocks) :
                           \A row \in SweptRows(e, m) : row >= DiscardThreshold
            IN /\ e.removal.tag # "InsertWithDelta" => (e.removal.tag = "Delete" <=> past)
               /\ e.removal.tag = "Delete" =>
                    /\ ChunkIds(e.chunk.blocks) \cap GridIds(stable_blocks) = {}
                    /\ \A i \in 1..Len(falling_blocks) :
                         falling_blocks[i].blocks = <<>>
                           \/ falling_blocks[i].blocks # e.chunk.blocks
               /\ e.removal.tag = "Keep" =>
                    \E i \in 1..Len(falling_blocks) : falling_blocks[i] = e.chunk)
    /\ [][ChunksContinue]_vars

(* a chunk of one block or more is discarded, a tick after it was kept with
   its members at the threshold *)
C9_Witness ==
    \E k \in Deletes :
        LET e == tick.events[k] IN
        /\ e.chunk.blocks # <<>>
        /\ \A m \in Members(e.chunk.blocks) :
             m[1][2] + (e.chunk.dy \div 60) >= DiscardThreshold
        /\ falling_blocks = <<>>

(* the frames in which a chunk now falling was created *)
BornFrames == {frames_elapsed - falling_blocks[i].time_alive : i \in 1..Len(falling_blocks)}

(* the chunk created in the tick of frame b left the falling set in this
   tick, re-attached or discarded *)
LeftNow(b) ==
    \E k \in 1..Len(tick.events) :
        /\ tick.events[k].chunk.time_alive = frames_elapsed - b
        /\ tick.events[k].removal.tag \in {"InsertWithDelta", "Delete"}

(* the last frame in which the player's acts can make a chunk: the frame
   after the last act *)
LastBorn ==
    LET late == CHOOSE f \in LateFrames : \A g \in LateFrames : g <= f
    IN Max(late, EarlyFrames) + 1

(* C10: every chunk that enters the falling set leaves it, re-attached or
   discarded, as long as update() keeps being called: no chunk stays
   falling for ever. *)
C10_ChunkLifecycle ==
    /\ [](BornFrames \subseteq 0..LastBorn)
    /\ \A b \in 0..LastBorn :
          (b \in BornFrames) ~> (b \notin BornFrames /\ LeftNow(b))

(* a chunk has fallen for thirty ticks and more *)
C10_Witness ==
    \E i \in 1..Len(falling_blocks) :
        /\ falling_blocks[i].blocks # <<>>
        /\ falling_blocks[i].time_alive >= 30

(* Next is enabled: the guards of its disjuncts (Update itself always has
   an outcome) *)
NextEnabled ==
    \/ held # None
    \/ CanAct
    \/ IF AtRest THEN frames_elapsed < MaxFrames ELSE frames_elapsed < MaxFallFrames

(* A frame.  Next is enabled exactly where NextEnabled holds and each of its
   steps adds one to frames_elapsed, so in a behaviour of Spec the steps of
   Frame are the steps of Next. *)
Frame == NextEnabled /\ frames_elapsed' = frames_elapsed + 1

(* update() is called on every frame: the game does not stop while a frame
   can be taken *)
SpecLive == Spec /\ WF_frames_elapsed(Frame)

----------------------------------------------------------------------------
(* Properties of the falling loop, of placement and of damage *)

(* the stable grid at the moment the chunk of event k is processed: the
   grid the drain left, or the grid the last commit before it left *)
GridAt(k) ==
    LET prev == {j \in Commits : j < k} IN
    IF prev = {} THEN tick.grid_drained
    ELSE tick.events[CHOOSE j \in prev : \A i \in prev : i <= j].grid_after

(* the chunk of event e as it was when the tick began *)
ChunkBefore(e) == [e.chunk EXCEPT !.dy = e.original_dy, !.time_alive = @ - 1]

(* the row a member of a chunk is at *)
RowOf(chunk, m) == m[1][2] + (chunk.dy \div 60)

(* C11: what becomes of a chunk in a tick (kept, re-attached and at which
   offset, discarded) is what becomes of it when it is the only chunk over
   the stable grid of the moment it is processed; it re-attaches exactly
   when one of its members links with that grid at a row it is at or
   passes, whatever other chunks are falling, also on the same cells. *)
C11_ChunksNeverInteract ==
    \A k \in 1..Len(tick.events) :
        LET e == tick.events[k]
            g == GridAt(k)
            alone == process_chunk(g, <<ChunkBefore(e)>>, DiscardThreshold, 1)
            links == \E m \in Members(e.chunk.blocks) : \E row \in SweptRows(e, m) :
                        is_stable(g, <<m[1][1], row>>, m[2])
        IN /\ alone.removal = e.removal
           /\ alone.chunk = e.chunk
           /\ (e.removal.tag = "InsertWithDelta") <=> links
           /\ e.removal.tag = "InsertWithDelta" =>
                /\ e.grid_before = g
                /\ e.grid_after = alone.stable
                /\ \E m \in Members(e.chunk.blocks) :
                     is_stable(g, Target(m, e.removal.delta), m[2])

(* two chunks are kept in one tick, a member of one right above a member of
   the other with connectors that would bond *)
C11_Witness ==
    \E k, l \in 1..Len(tick.events) :
        LET e == tick.events[k]
            f == tick.events[l]
        IN /\ k # l
           /\ e.removal.tag = "Keep"
           /\ f.removal.tag = "Keep"
           /\ \E m \in Members(e.chunk.blocks) : \E n \in Members(f.chunk.blocks) :
                /\ m[1][1] = n[1][1]
                /\ RowOf(e.chunk, m) + 1 = RowOf(f.chunk, n)
                /\ m[2].connectors[South] # None
                /\ n[2].connectors[North] # None
                /\ Bonds(m[2].connectors[South][1], n[2].connectors[North][1])

(* the cells tried as targets, around and inside the chasm *)
Box == (-6..6) \X (-1..5)

(* what handle_input does in this state when the button is let go with the
   mouse over pos *)
Released(pos) ==
    handle_input([MouseAway EXCEPT !.blockpos = pos], MkBlock(Joint[1], Joint[2], NextId))

HeldBlock == conveyor_blocks[held[1] + 1]

(* the last update() let go of a block over a cell *)
ReleasedOver(pos) ==
    /\ Ticked
    /\ ~tick.input.down
    /\ tick.input.blockpos = pos
    /\ pos # ConveyorPos

(* C12: a placement whose target cell holds a block of the stable grid is
   rejected: the grid, and so the block in that cell, and the conveyor are
   unchanged, and the candidate is still on the conveyor. *)
C12_PlacementNeverOverwrites ==
    /\ [](held # None =>
            \A pos \in DOMAIN stable_blocks :
                /\ Released(pos).placed = None
                /\ Released(pos).stable = stable_blocks
                /\ Released(pos).conveyor = conveyor_blocks
                /\ Released(pos).blocks_left = blocks_left)
    /\ [][(held # None /\ ~tick'.input.down /\ tick'.input.blockpos \in DOMAIN stable_blocks) =>
            /\ tick'.placed = None
            /\ tick'.grid_in = stable_blocks
            /\ conveyor_blocks' = conveyor_blocks
            /\ blocks_left' = blocks_left]_vars

(* a block was let go over a cell that holds a placed block, and that block
   is still there *)
C12_Witness ==
    \E pos \in PlaceCells :
        /\ ReleasedOver(pos)
        /\ tick.placed = None
        /\ pos \in DOMAIN tick.grid_in
        /\ tick.grid_in[pos].kind # "Anchor"
        /\ pos \in DOMAIN stable_blocks

(* the band a block may be placed in *)
Legal(kind, pos) ==
    /\ pos[2] >= 0
    /\ IF kind = "Anchor" THEN pos[1] \in {-5, 5} ELSE pos[1] \in -4..4

(* C13: a placement is accepted only if y >= 0 and the column is a wall
   column (|x| = 5) for an Anchor, inside the chasm (|x| <= 4) for any other
   kind; this is what is_valid_pos tests. *)
C13_LegalPlacementBand ==
    /\ held # None =>
         /\ \A pos \in Box : Released(pos).placed # None => Legal(HeldBlock.kind, pos)
         /\ \A i \in 1..Len(conveyor_blocks) : \A pos \in Box :
              is_valid_pos(conveyor_blocks[i], pos) <=> Legal(conveyor_blocks[i].kind, pos)
    /\ (Ticked /\ tick.placed # None) =>
         Legal(tick.grid_in[tick.placed[1]].kind, tick.placed[1])

(* a block was let go over a free wall cell under an occupied cell and was
   rejected: it is no Anchor *)
C13_Witness ==
    \E pos \in PlaceCells :
        /\ ReleasedOver(pos)
        /\ pos[1] \in {-5, 5}
        /\ pos \notin DOMAIN tick.grid_in
        /\ Add(pos, <<0, -1>>) \in DOMAIN tick.grid_in
        /\ tick.placed = None

(* an Anchor with one connector, of each flag, on each side *)
OneConnectorAnchors ==
    {MkBlock("Anchor", [d \in 0..3 |-> IF d = dir THEN Some(c) ELSE None], 0) :
       dir \in 0..3, c \in {SqOut, SqIn}}

(* the cell above holds a block, or the cell below does, or a connector of
   the block bonds with the connector a neighbour turns to it *)
Anchored(grid, pos, block) ==
    \/ Add(pos, <<0, -1>>) \in DOMAIN grid
    \/ Add(pos, <<0, 1>>) \in DOMAIN grid
    \/ \E dir \in 0..3 :
         LET q == Add(pos, deltas(dir)) IN
         /\ block.connectors[dir] # None
         /\ q \in DOMAIN grid
         /\ grid[q].connectors[(dir + 2) % 4] # None
         /\ Bonds(block.connectors[dir][1], grid[q].connectors[(dir + 2) % 4][1])

(* C14: an Anchor let go over a legal, free wall cell is placed if and only
   if the cell above holds a block, or the cell below does, or one of its
   connectors bonds with a neighbour's facing connector; a block of another
   kind over a legal, free cell is placed without more. *)
C14_AnchorPlacement ==
    held # None =>
        /\ \A pos \in {q \in Box : Legal(HeldBlock.kind, q) /\ q \notin DOMAIN stable_blocks} :
             IF HeldBlock.kind = "Anchor"
             THEN Released(pos).placed # None <=> Anchored(stable_blocks, pos, HeldBlock)
             ELSE Released(pos).placed # None
        /\ \A a \in OneConnectorAnchors : \A pos \in Box :
             can_anchor_be_placed(stable_blocks, pos, a) <=> Anchored(stable_blocks, pos, a)

(* an Anchor was placed, under a block and bonding with nothing, while over
   the wall cell below it would have been rejected *)
C14_Witness ==
    /\ Ticked
    /\ tick.placed # None
    /\ LET pos == tick.placed[1] IN
       /\ tick.grid_in[pos].kind = "Anchor"
       /\ Add(pos, <<0, -1>>) \in DOMAIN tick.grid_in
       /\ ~Anchored(tick.grid_in, Add(pos, <<0, 2>>), tick.grid_in[pos])

(* what handle_input does in this state when the button goes down with the
   mouse over pos *)
Clicked(pos) ==
    handle_input([MouseAway EXCEPT !.down = TRUE, !.pressed = TRUE, !.blockpos = pos],
                 MkBlock(Joint[1], Joint[2], NextId))

(* grid with one more damage on the block at pos *)
OneMoreDamage(grid, pos) ==
    [p \in DOMAIN grid |-> IF p = pos THEN [grid[p] EXCEPT !.damage = grid[p].damage + 1]
                           ELSE grid[p]]

ClickResult(grid, pos) ==
    IF pos \in DOMAIN grid /\ grid[pos].kind = "Scaffold"
    THEN OneMoreDamage(grid, pos)
    ELSE grid

(* C15: a click adds exactly one to the damage of the block of the stable
   grid at the clicked cell if that block is a Scaffold; a click on a Solid,
   on an Anchor or on an empty cell leaves the grid as it was. *)
C15_ClickDamage ==
    /\ [](held = None => \A pos \in Box : Clicked(pos).stable = ClickResult(stable_blocks, pos))
    /\ [][(held = None /\ tick'.input.pressed) =>
            tick'.grid_in = ClickResult(stable_blocks, tick'.input.blockpos)]_vars

(* a Scaffold was clicked and carries the damage, in a grid that also holds
   a Solid and Anchors *)
C15_Witness ==
    /\ Ticked
    /\ tick.input.pressed
    /\ tick.input.blockpos \in DOMAIN tick.grid_in
    /\ tick.grid_in[tick.input.blockpos].kind = "Scaffold"
    /\ tick.grid_in[tick.input.blockpos].damage >= 1
    /\ \E p \in DOMAIN tick.grid_in : tick.grid_in[p].kind = "Solid"

(* the damage a block of a kind can take *)
Res(kind) == CASE kind = "Scaffold" -> 8 [] kind = "Solid" -> 16 [] kind = "Anchor" -> 64

(* the tick that has just ended made the Bernoulli trials *)
OnCadence == (frames_elapsed - 1) % BREAK_TIMER = 0

(* C16: a block whose damage exceeds its resilience (Scaffold 8, Solid 16,
   Anchor 64), by a click or by a trial, is removed from the stable grid in
   the tick in which that arises, on every tick; a block whose damage is at
   most its resilience is not removed by the damage pass, and the pass adds
   at most one damage, on cadence ticks only. *)
C16_DestructionImmediate ==
    Ticked =>
        /\ DOMAIN tick.grid_damaged \subseteq DOMAIN tick.grid_in
        /\ \A p \in DOMAIN tick.grid_in :
             LET b == tick.grid_in[p] IN
             IF p \in DOMAIN tick.grid_damaged
             THEN LET c == tick.grid_damaged[p] IN
                  /\ c.damage <= Res(c.kind)
                  /\ c.damage - b.damage \in (IF OnCadence THEN {0, 1} ELSE {0})
                  /\ c = [b EXCEPT !.damage = c.damage]
             ELSE b.damage + (IF OnCadence THEN 1 ELSE 0) > Res(b.kind)

(* a ninth click took a Scaffold out of the grid in its own tick, off the
   cadence *)
C16_Witness ==
    /\ Ticked
    /\ ~OnCadence
    /\ tick.input.pressed
    /\ tick.input.blockpos \in DOMAIN tick.grid_in
    /\ tick.grid_in[tick.input.blockpos].damage = Res("Scaffold") + 1
    /\ tick.input.blockpos \notin DOMAIN tick.grid_damaged

(* C17: between ticks the damage of every block of the stable grid and of
   every falling chunk is within 0..resilience of its kind. *)
C17_DamageRange ==
    /\ \A p \in DOMAIN stable_blocks :
         stable_blocks[p].damage \in 0..Res(stable_blocks[p].kind)
    /\ \A i \in 1..Len(falling_blocks) : \A m \in Members(falling_blocks[i].blocks) :
         m[2].damage \in 0..Res(m[2].kind)

(* after a click, a Scaffold of the grid carries all the damage it can take *)
C17_Witness ==
    /\ Ticked
    /\ \E p \in DOMAIN stable_blocks :
         /\ stable_blocks[p].kind = "Scaffold"
         /\ stable_blocks[p].damage = Res("Scaffold")
    /\ \E p \in DOMAIN stable_blocks :
         stable_blocks[p].kind = "Scaffold" /\ stable_blocks[p].damage = 0

----------------------------------------------------------------------------
(* Properties of the statistics *)

Scaffolds(grid) == {p \in DOMAIN grid : grid[p].kind = "Scaffold"}
Solids(grid) == {p \in DOMAIN grid : grid[p].kind = "Solid"}

RECURSIVE SumRows(_)
SumRows(cells) ==
    IF cells = {} THEN 0
    ELSE LET c == CHOOSE x \in cells : TRUE IN c[2] + SumRows(cells \ {c})

(* total mass and mass-weighted sum of depths, Scaffold 1, Solid 5, Anchor 0 *)
TotalMass(grid) == Cardinality(Scaffolds(grid)) + 5 * Cardinality(Solids(grid))
WeightedDepth(grid) == SumRows(Scaffolds(grid)) + 5 * SumRows(Solids(grid))

(* C18: when the blocks of the stable grid weigh nothing (only Anchors), the
   center of mass the tick computes is 0, and the quotient it keeps never
   has the denominator 0. *)
C18_DegenerateMass ==
    Ticked =>
        /\ center_of_mass[2] # 0
        /\ TotalMass(tick.grid_in) = 0 => center_of_mass = <<0, 1>>

(* a tick over a grid of Anchors only, all other blocks falling *)
C18_Witness ==
    /\ Ticked
    /\ DOMAIN tick.grid_in # {}
    /\ TotalMass(tick.grid_in) = 0
    /\ falling_blocks # <<>>
    /\ center_of_mass = <<0, 1>>

(* C19: after a tick max_depth is the largest y of the blocks in the stable
   grid as the tick leaves it, and center_of_mass is their mass-weighted
   mean depth (0 when they weigh nothing). *)
C19_QueriesCurrent ==
    Ticked =>
        /\ \A p \in DOMAIN stable_blocks : p[2] <= max_depth
        /\ \/ max_depth = 0
           \/ \E p \in DOMAIN stable_blocks : p[2] = max_depth
        /\ IF TotalMass(stable_blocks) = 0
           THEN center_of_mass[1] = 0
           ELSE center_of_mass[1] * TotalMass(stable_blocks)
                  = WeightedDepth(stable_blocks) * center_of_mass[2]

(* C20: a block the release places is in the grid the stability pass of the
   same update() reads; if it is not reachable from an anchor there, it is
   in the new falling chunk and not in the stable grid when update()
   returns, and if it is reachable it is in the stable grid. *)
C20_PlacedBlockIsChecked ==
    (Ticked /\ tick.placed # None) =>
        LET pos == tick.placed[1]
            id == tick.grid_in[pos].id
        IN /\ pos \in DOMAIN tick.grid_damaged
           /\ tick.grid_damaged[pos].id = id
           /\ IF pos \in Supported(tick.grid_damaged)
              THEN pos \in DOMAIN stable_blocks /\ stable_blocks[pos].id = id
              ELSE /\ id \notin GridIds(stable_blocks)
                   /\ id \in ChunkIds(tick.chunk.blocks)
                   /\ falling_blocks # <<>>
                   /\ falling_blocks[Len(falling_blocks)].time_alive = 1
                   /\ id \in ChunkIds(falling_blocks[Len(falling_blocks)].blocks)

(* a block was placed where nothing holds it and is falling when update()
   returns *)
C20_Witness ==
    /\ Ticked
    /\ tick.placed # None
    /\ tick.placed[1] \notin Supported(tick.grid_damaged)
    /\ tick.placed[1] \notin DOMAIN stable_blocks
    /\ falling_blocks # <<>>

----------------------------------------------------------------------------
(* Properties of the tick as a whole *)

(* the orders a list of n members can be iterated in *)
Orders(n) == {s \in [1..n -> 1..n] : \A i, j \in 1..n : s[i] = s[j] => i = j}

Reordered(chunk, s) ==
    [chunk EXCEPT !.blocks = [i \in 1..Len(chunk.blocks) |-> chunk.blocks[s[i]]]]

(* C21: what a tick makes of a chunk (kept, discarded, re-attached and at
   which offset, and the stable grid the commit leaves) is the same for
   every order of the chunk's member list. *)
C21_OrderIndependence ==
    \A k \in 1..Len(tick.events) :
        LET e == tick.events[k]
            g == GridAt(k)
        IN \A s \in Orders(Len(e.chunk.blocks)) :
             LET r == process_chunk(g, <<Reordered(ChunkBefore(e), s)>>, DiscardThreshold, 1)
             IN /\ r.removal = e.removal
                /\ r.stable = (IF e.removal.tag = "InsertWithDelta" THEN e.grid_after ELSE g)

(* the number of sides of the block at p whose connector bonds with the
   facing connector of the neighbour *)
LiveBonds(grid, p) == Cardinality({dir \in 0..3 : BondedStep(grid, p, dir)})

U8Max == 255

AllBlocks ==
    {stable_blocks[p] : p \in DOMAIN stable_blocks}
      \cup {conveyor_blocks[i] : i \in 1..Len(conveyor_blocks)}
      \cup UNION {{m[2] : m \in Members(falling_blocks[i].blocks)} : i \in 1..Len(falling_blocks)}

(* the events of the tick before event k that took their chunk off the list *)
GoneBefore(events, k) == {j \in 1..(k - 1) : events[j].removal.tag # "Keep"}

(* C22: update() never faults.  The held index is a valid index of the
   conveyor; the index into the break table is the live bond count and lies
   in 0..4; every damage counter leaves room in a u8 for the increments of
   a tick; and the falling loop visits every index of the chunk list once,
   from the last to the first, each valid in the list as the removals
   before it have left it. *)
C22_Steppable ==
    /\ [](/\ held # None => held[1] \in 0..(Len(conveyor_blocks) - 1)
          /\ \A b \in AllBlocks : b.damage + 2 <= U8Max
          /\ Ticked => \A p \in DOMAIN tick.grid_in :
                /\ link_count(tick.grid_in, p) = LiveBonds(tick.grid_in, p)
                /\ link_count(tick.grid_in, p) + 1 \in 1..Len(BREAK_CHANCES))
    /\ [][/\ Len(tick'.events) = Len(falling_blocks) + 1
          /\ \A k \in 1..Len(tick'.events) :
               LET chunk_idx == Len(tick'.events) - k + 1 IN
               chunk_idx \in 1..(Len(tick'.events) - Cardinality(GoneBefore(tick'.events, k)))
          /\ Len(falling_blocks') =
               Len(tick'.events) - Cardinality(GoneBefore(tick'.events, Len(tick'.events) + 1))]_vars

(* with the allowance spent and one block left on the conveyor, the player
   reached for the second slot and holds nothing *)
C22_Witness ==
    /\ Ticked
    /\ blocks_left = 0
    /\ tick.input.slot # None
    /\ tick.input.slot[1] >= Len(conveyor_blocks)
    /\ held = None

(* the offsets a tick tests for the chunk of event e: the integer part of
   its fall progress before the tick up to the one after it *)
TestedOffsets(e) == (e.original_dy \div 60)..(e.chunk.dy \div 60)

(* the tested offsets at which some member of the chunk links with grid g *)
QualifyingOffsets(e, g) ==
    {d \in TestedOffsets(e) : \E m \in Members(e.chunk.blocks) : is_stable(g, Target(m, d), m[2])}

(* C23: a chunk that re-attaches is committed at the smallest tested offset
   at which one of its members is stable (the first row from its previous
   position downward), and every member is committed at that one offset. *)
C23_FirstRowWins ==
    \A k \in Commits :
        LET e == tick.events[k]
            q == QualifyingOffsets(e, e.grid_before)
        IN /\ e.removal.delta \in q
           /\ \A d \in q : e.removal.delta <= d
           /\ \A m \in Members(e.chunk.blocks) :
                Target(m, e.removal.delta) \in DOMAIN e.grid_after

(* the blocks the damage loop of the tick removed, and the blocks left that
   were reachable from an anchor before the removal and are not after it *)
Destroyed == DOMAIN tick.grid_in \ DOMAIN tick.grid_damaged
Orphaned == (Supported(tick.grid_in) \cap DOMAIN tick.grid_damaged) \ Supported(tick.grid_damaged)

(* C24: in a tick the destroyed blocks are removed before the supported set
   is computed, so the blocks that were supported only through a destroyed
   block are in the new chunk of that same tick and not in the grid the
   drain leaves; the chunks are advanced after the extraction: the new chunk
   is the first the loop takes, it is advanced by nothing, and every chunk is
   tested against a grid without the extracted blocks. *)
C24_TickOrdering ==
    Ticked =>
        /\ Orphaned \subseteq ChunkCells(tick.chunk.blocks)
        /\ ChunkCells(tick.chunk.blocks) = DOMAIN tick.grid_damaged \ Supported(tick.grid_damaged)
        /\ \A m \in Members(tick.chunk.blocks) : m[2] = tick.grid_damaged[m[1]]
        /\ tick.grid_drained = Restrict(tick.grid_damaged, Supported(tick.grid_damaged))
        /\ tick.events[1].chunk = [tick.chunk EXCEPT !.time_alive = 1]
        /\ tick.events[1].original_dy = 0
        /\ \A k \in 1..Len(tick.events) :
             /\ GridIds(GridAt(k)) \cap ChunkIds(tick.chunk.blocks) = {}
             /\ process_chunk(GridAt(k), <<ChunkBefore(tick.events[k])>>, DiscardThreshold, 1).removal
                  = tick.events[k].removal

(* a block was destroyed and the two blocks it carried are in the new chunk
   of the same tick *)
C24_Witness ==
    /\ Ticked
    /\ Destroyed # {}
    /\ Cardinality(Orphaned) = 2
    /\ Orphaned = ChunkCells(tick.chunk.blocks)
    /\ Len(falling_blocks) = 1
    /\ falling_blocks[1].time_alive = 1

----------------------------------------------------------------------------
(* Properties of the fall *)

(* the sum over k < n of min(1/2, k/60), in sixtieths: k grows to 30 on the
   tick of age 30 and stays there *)
Progress(n) == IF n <= 31 THEN (n * (n - 1)) \div 2 ELSE 465 + 30 * (n - 31)

(* the step of a chunk of age n, in sixtieths *)
FallStep(n) == IF n < 30 THEN n ELSE 30

(* C25: in a tick every falling chunk's progress grows by min(terminal,
   acceleration * age) with the age it had before the tick, and its age
   grows by one; the chunk the tick creates ends it with age 1 and progress
   0; so the progress of a chunk of age n is the sum over k < n of
   min(1/2, k/60). *)
C25_FallKinematics ==
    /\ [](\A i \in 1..Len(falling_blocks) :
             falling_blocks[i].dy = Progress(falling_blocks[i].time_alive))
    /\ [][/\ \A i \in 1..Len(falling_blocks) :
               LET e == tick'.events[Len(tick'.events) - i + 1] IN
               /\ e.chunk.blocks = falling_blocks[i].blocks
               /\ e.original_dy = falling_blocks[i].dy
               /\ e.chunk.dy = falling_blocks[i].dy + FallStep(falling_blocks[i].time_alive)
               /\ e.chunk.time_alive = falling_blocks[i].time_alive + 1
          /\ tick'.events[1].chunk.dy = 0
          /\ tick'.events[1].chunk.time_alive = 1
          /\ \A j \in 1..Len(falling_blocks') :
               \E k \in 1..Len(tick'.events) :
                  /\ tick'.events[k].removal.tag = "Keep"
                  /\ tick'.events[k].chunk = falling_blocks'[j]]_vars

(* a chunk that has been falling at terminal velocity for ten ticks, in
   the tick that took it there *)
C25_Witness ==
    /\ Ticked
    /\ \E i \in 1..Len(falling_blocks) :
         /\ falling_blocks[i].time_alive = 41
         /\ falling_blocks[i].dy = 765
         /\ falling_blocks[i].blocks # <<>>
         /\ \E k \in 2..Len(tick.events) :
              /\ tick.events[k].chunk = falling_blocks[i]
              /\ tick.events[k].original_dy = 735

(* the integer row offset of the chunk of event e before and after the tick *)
OffsetBefore(e) == e.original_dy \div 60
OffsetAfter(e) == e.chunk.dy \div 60

(* C26: in a tick the integer row offset of a chunk grows by at most 1, so
   the number of rows tested, delta, is 1 or 2, and every row from the
   chunk's starting to its final position is tested: a member that links at
   any of them makes the chunk re-attach, at one of those offsets. *)
C26_NoTunneling ==
    \A k \in 1..Len(tick.events) :
        LET e == tick.events[k]
            rows == OffsetBefore(e)..OffsetAfter(e)
        IN /\ OffsetAfter(e) - OffsetBefore(e) \in {0, 1}
           /\ OffsetAfter(e) - (OffsetBefore(e) - 1) \in {1, 2}
           /\ (\E m \in Members(e.chunk.blocks) : \E d \in rows :
                  is_stable(GridAt(k), Target(m, d), m[2]))
                => e.removal.tag = "InsertWithDelta"
           /\ e.removal.tag = "InsertWithDelta" => e.removal.delta \in rows

(* a chunk crossed a row and re-attached at the row it left, where alone a
   member links *)
C26_Witness ==
    \E k \in Commits :
        LET e == tick.events[k] IN
        /\ OffsetAfter(e) = OffsetBefore(e) + 1
        /\ e.removal.delta = OffsetBefore(e)
        /\ \A m \in Members(e.chunk.blocks) :
             ~is_stable(e.grid_before, Target(m, OffsetAfter(e)), m[2])

----------------------------------------------------------------------------
(* Properties of the damage model *)

(* the blocks whose damage the damage loop of the tick raised *)
Hit == {p \in DOMAIN tick.grid_in \cap DOMAIN tick.grid_damaged :
          tick.grid_damaged[p].damage # tick.grid_in[p].damage}
     \cup {p \in Destroyed : tick.grid_in[p].damage <= Res(tick.grid_in[p].kind)}

(* C27: the damage loop raises damage only in ticks whose frame counter is
   a multiple of BREAK_TIMER; in any other tick it leaves every block's
   damage as it was, and removes only blocks a click took over their
   resilience; in a cadence tick it raises a block's damage by at most 1. *)
C27_DamageCadence ==
    /\ [](Ticked =>
            /\ ~OnCadence => Hit = {}
            /\ \A p \in DOMAIN tick.grid_damaged :
                 tick.grid_damaged[p].damage - tick.grid_in[p].damage \in {0, 1}
            /\ \A p \in Destroyed :
                 tick.grid_in[p].damage + 1 > Res(tick.grid_in[p].kind))
    /\ [][frames_elapsed % BREAK_TIMER # 0 =>
            tick'.grid_damaged = Restrict(tick'.grid_in, DOMAIN tick'.grid_damaged)]_vars

(* the tick of frame 60 raised the damage of a block *)
C27_Witness ==
    /\ Ticked
    /\ frames_elapsed = BREAK_TIMER + 1
    /\ \E p \in Hit :
         /\ p \in DOMAIN tick.grid_damaged
         /\ tick.grid_damaged[p].damage = tick.grid_in[p].damage + 1

(* 0, 0.3/60, 1/60, 1.5/60 and 3/60 over the denominator of the model *)
ChanceOfBonds(n) ==
    CASE n = 0 -> 0
      [] n = 1 -> (3 * ChanceDen) \div 600
      [] n = 2 -> ChanceDen \div 60
      [] n = 3 -> (15 * ChanceDen) \div 600
      [] n = 4 -> (3 * ChanceDen) \div 60

(* in one of the two wall columns, where the anchors are embedded *)
InWall(p) == p[1] = -5 \/ p[1] = 5

(* inside the chasm, in the column next to a wall *)
FlushWithWall(p) == p[1] = -4 \/ p[1] = 4

(* every column inside the chasm is occupied at the depth of p *)
RowComplete(grid, p) == \A x \in -4..4 : <<x, p[2]>> \in DOMAIN grid

(* C28: the break chance of a block is the table entry of its live bond
   count, which lies in 0..4, up to the two modifiers (a half, a tenth), and
   is that entry for a block away from the walls in an incomplete row; a
   block without a live bond has chance 0 and is never hit by a trial; the
   entries grow strictly with the bond count. *)
C28_BreakChanceByBonds ==
    /\ \A n \in 0..3 : ChanceOfBonds(n) < ChanceOfBonds(n + 1)
    /\ \A p \in DOMAIN stable_blocks :
         LET n == LiveBonds(stable_blocks, p) IN
         /\ n \in 0..4
         /\ \E half \in {1, 2} : \E tenth \in {1, 10} :
               break_chance(stable_blocks, p) * half * tenth = ChanceOfBonds(n)
         /\ (~InWall(p) /\ ~FlushWithWall(p) /\ ~RowComplete(stable_blocks, p))
               => break_chance(stable_blocks, p) = ChanceOfBonds(n)
         /\ n = 0 => break_chance(stable_blocks, p) = 0
         /\ n > 0 => break_chance(stable_blocks, p) > 0
    /\ Ticked => \A p \in Hit : LiveBonds(tick.grid_in, p) > 0

(* a cadence tick hit a block with two or more live bonds, with a Scaffold
   that merely rests and a block with one bond away from the walls in the
   grid *)
C28_Witness ==
    /\ Ticked
    /\ OnCadence
    /\ \E p \in Hit : LiveBonds(tick.grid_in, p) >= 2
    /\ \E p \in DOMAIN tick.grid_in :
         ~InWall(p) /\ ~FlushWithWall(p) /\ LiveBonds(tick.grid_in, p) = 1
    /\ \E p \in DOMAIN tick.grid_damaged :
         /\ tick.grid_damaged[p].kind = "Scaffold"
         /\ LiveBonds(tick.grid_in, p) = 0

(* C29: a block flush against a chasm wall has half the break chance of an
   otherwise identical block (same live bonds, same row completeness) that
   is not, and no other block's chance is halved. *)
C29_WallBracing ==
    \A p \in DOMAIN stable_blocks :
        LET whole == ChanceOfBonds(LiveBonds(stable_blocks, p))
                       \div (IF RowComplete(stable_blocks, p) THEN 10 ELSE 1)
        IN break_chance(stable_blocks, p)
             = IF FlushWithWall(p) THEN whole \div 2 ELSE whole

(* the cells inside the chasm at the depth of p that are neither p nor next
   to it: without one of them the row is incomplete and the block at p has
   the bonds it had *)
RowMates(p) == {<<x, p[2]>> : x \in {c \in -4..4 : c - p[1] > 1 \/ p[1] - c > 1}}

(* C30: the break chance of a block in a row with all 9 columns -4..4 of the
   chasm occupied is a tenth of the chance the same block has when any one
   other column of the row is empty; in a row that misses a column the
   chance is the table entry, whole or halved, without the tenth. *)
C30_CompleteRow ==
    \A p \in DOMAIN stable_blocks :
        IF RowComplete(stable_blocks, p)
        THEN /\ \E half \in {1, 2} :
                  break_chance(stable_blocks, p) * half * 10
                    = ChanceOfBonds(LiveBonds(stable_blocks, p))
             /\ held = None => \A q \in RowMates(p) :
                  LET without == Restrict(stable_blocks, DOMAIN stable_blocks \ {q}) IN
                  /\ ~RowComplete(without, p)
                  /\ break_chance(stable_blocks, p) * 10 = break_chance(without, p)
        ELSE \E half \in {1, 2} :
               break_chance(stable_blocks, p) * half
                 = ChanceOfBonds(LiveBonds(stable_blocks, p))

(* a cadence tick hit a bonded block of a complete row *)
C30_Witness ==
    /\ Ticked
    /\ OnCadence
    /\ \E p \in Hit :
         /\ ~InWall(p)
         /\ RowComplete(tick.grid_in, p)
         /\ LiveBonds(tick.grid_in, p) = 2
         /\ break_chance(tick.grid_in, p) * 10 = ChanceOfBonds(2)

----------------------------------------------------------------------------
(* Termination of the stability flood fill *)

(* The iterations the argument of the claim allows: one per seed, and four
   per block, since a block is expanded once and pushes at most the cell
   above and three neighbours. *)
FloodFuel(grid) ==
    Cardinality({p \in DOMAIN grid : grid[p].kind = "Anchor"})
      + 4 * Cardinality(DOMAIN grid)

FloodRun(grid) ==
    flood_fill_counted(grid, anchor_seeds(grid), {}, <<>>, 0, FloodFuel(grid))

(* C31: on the grid every tick hands to the flood fill, and on the grid the
   tick leaves, the worklist is empty after at most one iteration per seed
   and four per block; no coordinate is expanded twice, every expanded
   coordinate holds a block, and the tick went on to drain exactly the
   blocks outside the set the fill returned. *)
C31_FloodFillTerminates ==
    /\ LET run == FloodRun(stable_blocks) IN
         /\ run.queries = <<>>
         /\ run.stable_poses = compute_stable_poses(stable_blocks)
    /\ Ticked =>
         LET grid == tick.grid_damaged
             run == FloodRun(grid)
         IN /\ run.queries = <<>>
            /\ run.steps <= FloodFuel(grid)
            /\ \A i, j \in 1..Len(run.expanded) :
                  run.expanded[i] = run.expanded[j] => i = j
            /\ \A i \in 1..Len(run.expanded) : run.expanded[i] \in DOMAIN grid
            /\ DOMAIN tick.grid_drained = DOMAIN grid \cap run.stable_poses

(* a tick whose fill expanded a block that is no Anchor, met a coordinate it
   had already met, met coordinates that hold no block, and left blocks
   unsupported *)
C31_Witness ==
    /\ Ticked
    /\ LET grid == tick.grid_damaged
           run == FloodRun(grid)
       IN /\ run.queries = <<>>
          /\ \E i \in 1..Len(run.expanded) : grid[run.expanded[i]].kind # "Anchor"
          /\ run.steps > Cardinality(run.stable_poses)
          /\ run.stable_poses \ DOMAIN grid # {}
          /\ tick.chunk.blocks # <<>>

----------------------------------------------------------------------------
(* The tick that creates a chunk *)

(* the chunk pushed by the last tick, as the falling loop leaves it if it
   keeps it: same members, no progress, one tick old *)
NewChunkKept == [blocks |-> tick.chunk.blocks, dy |-> 0, time_alive |-> 1]

(* C32: when a tick extracts a non-empty chunk, no member is stable
   (bonded, or resting on a block) at its own coordinate in the grid the
   extraction leaves; the falling loop handles that chunk first and keeps
   it, and when the tick ends the chunk is the last of the falling chunks,
   at offset 0, and none of its members is in the stable grid. *)
C32_NotReattachedAtCreation ==
    (Ticked /\ tick.chunk.blocks # <<>>) =>
        /\ \A i \in 1..Len(tick.chunk.blocks) :
              LET m == tick.chunk.blocks[i] IN
              ~is_stable(tick.grid_drained, m[1], m[2])
        /\ tick.events[1].chunk = NewChunkKept
        /\ tick.events[1].removal = Keep
        /\ falling_blocks # <<>>
        /\ falling_blocks[Len(falling_blocks)] = NewChunkKept
        /\ ChunkIds(tick.chunk.blocks) \cap GridIds(stable_blocks) = {}

(* a tick extracted a chunk with a member that stands beside or under a
   block the extraction left, connector facing connector, and the chunk is
   falling when the tick ends *)
C32_Witness ==
    /\ Ticked
    /\ tick.chunk.blocks # <<>>
    /\ falling_blocks # <<>>
    /\ falling_blocks[Len(falling_blocks)] = NewChunkKept
    /\ \E i \in 1..Len(tick.chunk.blocks) :
         LET m == tick.chunk.blocks[i] IN
         \E dir \in {North, East, West} :
            LET target == Add(m[1], deltas(dir)) IN
            /\ target \in DOMAIN tick.grid_drained
            /\ m[2].connectors[dir] # None
            /\ tick.grid_drained[target].connectors[flip(dir)] # None

----------------------------------------------------------------------------
(* Where blocks go *)

(* the blocks of a state, stable or falling, by id *)
IdsOf(grid, falling) ==
    GridIds(grid) \cup UNION {ChunkIds(falling[i].blocks) : i \in 1..Len(falling)}

(* the coordinate a state records for a block: its cell in the stable grid,
   or the original coordinate it keeps as a member of a falling chunk *)
CellOf(grid, falling, id) ==
    IF id \in GridIds(grid)
    THEN CHOOSE p \in DOMAIN grid : grid[p].id = id
    ELSE LET i == CHOOSE c \in 1..Len(falling) : id \in ChunkIds(falling[c].blocks)
             ms == falling[i].blocks
             j == CHOOSE n \in 1..Len(ms) : ms[n][2].id = id
         IN ms[j][1]

(* the cells a re-attachment filled *)
Landed(e) == DOMAIN e.grid_after \ DOMAIN e.grid_before

OffsetsInRange ==
    \A k \in Commits :
        LET e == tick.events[k]
            d == e.removal.delta
        IN /\ d \in Nat
           /\ d * 60 <= e.chunk.dy
           /\ \A p \in Landed(e) :
                \E m \in Members(e.chunk.blocks) :
                    /\ e.grid_after[p] = m[2]
                    /\ p[1] = m[1][1]
                    /\ p[2] = m[1][2] + d
                    /\ p[2] >= m[1][2]

NoMoveUpOrSideways ==
    \A id \in IdsOf(stable_blocks, falling_blocks)
                \cap IdsOf(stable_blocks', falling_blocks') :
        LET p == CellOf(stable_blocks, falling_blocks, id)
            q == CellOf(stable_blocks', falling_blocks', id)
        IN /\ q[1] = p[1]
           /\ q[2] >= p[2]
           /\ (id \in GridIds(stable_blocks) \/ id \notin GridIds(stable_blocks'))
                => q = p

(* C33: every re-attachment offset is a natural number of rows no greater
   than the floor of the chunk's fall progress, and every cell it fills holds
   a member at its original x, the offset below its original y; from one tick
   to the next a block keeps its x and never has a smaller y: a stable block
   stays in its cell or is extracted at its coordinate, a falling block keeps
   its original coordinate until it lands at or below it. *)
C33_NeverUpOrSideways == []OffsetsInRange /\ [][NoMoveUpOrSideways]_vars

(* a re-attachment one row or more below: a member landed in a cell under
   its original coordinate *)
C33_Witness ==
    /\ Ticked
    /\ \E k \in Commits :
         LET e == tick.events[k] IN
         /\ e.removal.delta >= 1
         /\ \E m \in Members(e.chunk.blocks) :
              /\ Target(m, e.removal.delta) \in Landed(e)
              /\ stable_blocks[Target(m, e.removal.delta)] = m[2]

----------------------------------------------------------------------------
(* Block conservation *)

(* the number of blocks of a state: cells of the stable grid plus members
   of all falling chunks *)
BlockCount(grid, falling) ==
    Cardinality(DOMAIN grid)
      + Cardinality(UNION {{<<i, j>> : j \in 1..Len(falling[i].blocks)} :
                             i \in 1..Len(falling)})

(* what the tick recorded in t did with blocks, by id: the blocks the damage
   loop removed, the members a re-attachment found their target occupied
   for, and the members of the chunks it deleted *)
DestroyedIds(t) == GridIds(t.grid_in) \ GridIds(t.grid_damaged)

VoidedIds(t) ==
    UNION {{m[2].id : m \in {n \in Members(t.events[k].chunk.blocks) :
                                Target(n, t.events[k].removal.delta)
                                  \in DOMAIN t.events[k].grid_before}} :
             k \in {c \in 1..Len(t.events) : t.events[c].removal.tag = "InsertWithDelta"}}

DiscardedIds(t) ==
    UNION {ChunkIds(t.events[k].chunk.blocks) :
             k \in {c \in 1..Len(t.events) : t.events[c].removal.tag = "Delete"}}

Conserved ==
    LET t == tick'
        before == IdsOf(stable_blocks, falling_blocks)
        after == IdsOf(stable_blocks', falling_blocks')
        placed == GridIds(t.grid_in) \ GridIds(stable_blocks)
        lost == DestroyedIds(t) \cup VoidedIds(t) \cup DiscardedIds(t)
    IN /\ Cardinality(placed) <= 1
       /\ placed # {} <=> t.placed # None
       /\ placed # {} =>
            /\ held # None
            /\ ~t.input.down
            /\ placed = {conveyor_blocks[held[1] + 1].id}
            /\ placed \cap before = {}
       /\ GridIds(stable_blocks) \subseteq GridIds(t.grid_in)
       /\ after = (before \cup placed) \ lost
       /\ lost \subseteq before \cup placed
       /\ BlockCount(stable_blocks', falling_blocks')
            = BlockCount(stable_blocks, falling_blocks)
                + Cardinality(placed) - Cardinality(DestroyedIds(t))
                - Cardinality(VoidedIds(t)) - Cardinality(DiscardedIds(t))
       /\ BlockCount(stable_blocks', falling_blocks') = Cardinality(after)
       /\ ChunkIds(t.chunk.blocks) \subseteq after
       /\ \A k \in 1..Len(t.events) :
            LET e == t.events[k] IN
            e.removal.tag = "InsertWithDelta" =>
              ChunkIds(e.chunk.blocks) \ VoidedIds(t) \subseteq GridIds(stable_blocks')

(* C34: over every tick the number of blocks in the stable grid and the
   falling chunks is what it was, plus one if and only if the tick accepted
   the release of the held block (which then is the one new block), minus
   the blocks the damage loop destroyed, the members voided by an occupied
   target and the members of deleted chunks; no other block appears or
   disappears, extracted blocks and members committed to free cells are all
   still there, and no block is counted twice. *)
C34_BlockConservation == [][Conserved]_vars

(* a tick that accepted a placement and voided a member of a re-attaching
   chunk: one block more, one block less *)
C34_Witness ==
    /\ Ticked
    /\ tick.placed # None
    /\ VoidedIds(tick) # {}
    /\ BlockCount(stable_blocks, falling_blocks)
         = Cardinality(IdsOf(stable_blocks, falling_blocks))

====
